---------------------------- MODULE Spec2Model ----------------------------
(***************************************************************************)
(* A model of gdb/symtab.c: the two-tier symbol catalog (partial symtabs   *)
(* and full symtabs), scoped name lookup, the pc <-> line mapping, symbol  *)
(* search and symbol completion.                                           *)
(*                                                                         *)
(* One object file is modelled.  Its static content (what the debug-format *)
(* reader has put, or will put on demand, into the catalog) is the record  *)
(* cat, chosen by Init and never changed.  The mutable part of the catalog *)
(* is readin / pst_symtab / symtabs, plus the global block_found and the   *)
(* object file's cache of demangled names.                                 *)
(* Names are sequences of one-character strings.                           *)
(***************************************************************************)
EXTENDS Integers, Sequences, FiniteSets, TLC

VARIABLES
  cat,          \* static content of the object file (psymtabs, units, msymbols, modes)
  readin,       \* readin[p]: partial symtab p has been read in (ps->readin)
  pst_symtab,   \* pst_symtab[p]: unit whose primary symtab is ps->symtab, 0 = NULL
  symtabs,      \* objfile->symtabs: the list of full symtabs, each <<unit, index>>
  reads,        \* reads[p]: how many times the reader was invoked for p (ghost)
  block_found,  \* the global block_found
  demangled_names_hash,  \* objfile->demangled_names_hash: lookup key -> demangled name
  name_log,     \* per lookup key: demangler calls and the names first handed out (ghost)
  res           \* the last operation: its name, arguments and result

vars == <<cat, readin, pst_symtab, symtabs, reads, block_found,
          demangled_names_hash, name_log, res>>

-----------------------------------------------------------------------------
(* Bounds of the model.                                                    *)

\* Largest line number a line table uses in the enumerated line tables.
MaxLine == 2
\* Largest address used by the enumerated line tables and address queries.
MaxPc == 3
\* Upper bound on reader invocations counted per partial symtab.
MaxReads == 2
\* Upper bound on the jumps back to got_symtab followed in one lookup_symtab.
MaxJumps == 2
\* Upper bound on the rounds of the loop of skip_prologue_using_sal followed.
MaxRounds == 4

-----------------------------------------------------------------------------
(* Null references.                                                        *)

NoSymtab == <<0, 0>>
NoBlock  == <<0, "">>
NoSym    == <<0, "", 0>>
NoName   == <<"\\0">>

GLOBAL_BLOCK == "G"
STATIC_BLOCK == "S"

\* body(v): names a value once so that it is computed once.
With(v, body(_)) == body(v)

Max(a, b) == IF a >= b THEN a ELSE b
Min(a, b) == IF a <= b THEN a ELSE b

Psts == 1..Len(cat.pst)

\* The dynamic part of the catalog as one record, threaded through the operators.
St == [readin |-> readin, pst_symtab |-> pst_symtab, symtabs |-> symtabs,
       reads |-> reads, block_found |-> block_found]

-----------------------------------------------------------------------------
(* Accessors.                                                              *)

Unit(u) == cat.unit[u]
SymtabRec(s) == Unit(s[1]).symtabs[s[2]]
LINETABLE(s) == SymtabRec(s).linetable
Filename(s) == SymtabRec(s).filename
BLOCKVECTOR(s) == s[1]
BLOCKVECTOR_BLOCK(bv, i) == <<bv, i>>
BlockRec(b) == Unit(b[1]).blocks[b[2]]
BLOCK_SUPERBLOCK(b) ==
  IF BlockRec(b).super = "" THEN NoBlock ELSE <<b[1], BlockRec(b).super>>
BLOCK_FUNCTION(b) == BlockRec(b).func
BLOCK_DICT(b) == BlockRec(b).dict
BLOCK_START(b) == BlockRec(b).start
BLOCK_END(b) == BlockRec(b).end_
SymRec(y) == BLOCK_DICT(<<y[1], y[2]>>)[y[3]]

\* The symtabs a unit contributes, primary first, as the reader links them.
UnitSymtabs(u) == [k \in 1..Len(Unit(u).symtabs) |-> <<u, k>>]

\* ALL_PRIMARY_SYMTABS: the primary symtabs of the list, in list order.
RECURSIVE PrimaryOnly(_)
PrimaryOnly(l) ==
  IF l = <<>> THEN <<>>
  ELSE IF SymtabRec(Head(l)).primary THEN <<Head(l)>> \o PrimaryOnly(Tail(l))
       ELSE PrimaryOnly(Tail(l))

-----------------------------------------------------------------------------
(* Partial symtab -> symtab conversion.                                    *)

\* A variant that re-reads a unit each time it is asked for.
PSYMTAB_TO_SYMTAB_reread(s, p) ==
  LET u == cat.pst[p].unit IN
  [st |-> [s EXCEPT !.readin[p] = TRUE,
                    !.pst_symtab[p] = u,
                    !.symtabs = IF u = 0 THEN @ ELSE UnitSymtabs(u) \o @,
                    !.reads[p] = Min(@ + 1, MaxReads)],
   val |-> IF u = 0 THEN NoSymtab ELSE <<u, 1>>]

\* The partial symtab of the unit that includes the file of partial symtab
\* p, 0 when p stands for a unit of its own.
Includer(p) == IF "includer" \in DOMAIN cat.pst[p] THEN cat.pst[p].includer ELSE 0

\* Reading in the partial symtab of an include file: the including unit is
\* read in, which creates the symtab of the file, and the partial symtab is
\* marked read in without a symtab of its own.
ReadIncluder(s, p) ==
  LET i == Includer(p)
      u == cat.pst[i].unit
  IN [(IF s.readin[i] THEN s
       ELSE [s EXCEPT !.readin[i] = TRUE,
                      !.pst_symtab[i] = u,
                      !.symtabs = IF u = 0 THEN @ ELSE UnitSymtabs(u) \o @,
                      !.reads[i] = Min(@ + 1, MaxReads)])
        EXCEPT !.readin[p] = TRUE,
               !.reads[p] = Min(@ + 1, MaxReads)]

\* PSYMTAB_TO_SYMTAB (pst): the symtab of pst, read in on first demand.
\* The result is [st |-> new catalog state, val |-> symtab or NoSymtab].
PSYMTAB_TO_SYMTAB(s, p) ==
  IF s.pst_symtab[p] # 0 THEN [st |-> s, val |-> <<s.pst_symtab[p], 1>>]
  ELSE IF s.readin[p] THEN [st |-> s, val |-> NoSymtab]
  ELSE IF Includer(p) # 0 THEN [st |-> ReadIncluder(s, p), val |-> NoSymtab]
  ELSE LET u == cat.pst[p].unit IN
       [st |-> [s EXCEPT !.readin[p] = TRUE,
                         !.pst_symtab[p] = u,
                         !.symtabs = IF u = 0 THEN @ ELSE UnitSymtabs(u) \o @,
                         !.reads[p] = Min(@ + 1, MaxReads)],
        val |-> IF u = 0 THEN NoSymtab ELSE <<u, 1>>]

-----------------------------------------------------------------------------
(* Minimal symbols (the address classifier).                               *)

DataTypes == {"mst_data", "mst_bss", "mst_abs", "mst_file_data", "mst_file_bss"}

\* lookup_minimal_symbol_by_pc_section: the minimal symbol with the greatest
\* address not above pc (the last such one in table order), 0 if none.
lookup_minimal_symbol_by_pc_section(pc, section) ==
  LET C == {i \in 1..Len(cat.msyms) :
              /\ cat.msyms[i].addr <= pc
              /\ (section = 0 \/ cat.msyms[i].sect = section)}
  IN IF C = {} THEN 0
     ELSE CHOOSE i \in C : \A j \in C :
            \/ cat.msyms[j].addr < cat.msyms[i].addr
            \/ (cat.msyms[j].addr = cat.msyms[i].addr /\ j <= i)

\* lookup_minimal_symbol_text: the first text minimal symbol of that name.
lookup_minimal_symbol_text(name) ==
  LET C == {i \in 1..Len(cat.msyms) :
              /\ cat.msyms[i].name = name
              /\ cat.msyms[i].type \in {"mst_text", "mst_file_text"}}
  IN IF C = {} THEN 0 ELSE CHOOSE i \in C : \A j \in C : i <= j

-----------------------------------------------------------------------------
(* Address -> partial symtab.                                              *)

\* One partition scan of find_pc_sect_psymbol: b is [found, addr, best_pc].
RECURSIVE PsymbolScan(_, _, _, _, _)
PsymbolScan(list, textlow, pc, section, b) ==
  IF list = <<>> THEN b
  ELSE LET p == Head(list)
           take == /\ p.domain = "VAR_DOMAIN"
                   /\ p.class = "LOC_BLOCK"
                   /\ pc >= p.addr
                   /\ \/ p.addr > b.best_pc
                      \/ (textlow = 0 /\ b.best_pc = 0 /\ p.addr = 0)
                   /\ (section # 0 => p.sect = section)
       IN PsymbolScan(Tail(list), textlow, pc, section,
                      IF take THEN [found |-> TRUE, addr |-> p.addr, best_pc |-> p.addr]
                      ELSE b)

\* find_pc_sect_psymbol (psymtab, pc, section) for a given psymtab: the
\* function psymbol with the greatest address not above pc.
find_pc_sect_psymbol(p, pc, section) ==
  LET ps == cat.pst[p]
      b0 == [found |-> FALSE, addr |-> 0,
             best_pc |-> IF ps.textlow # 0 THEN ps.textlow - 1 ELSE 0]
      b1 == PsymbolScan(ps.globals, ps.textlow, pc, section, b0)
  IN PsymbolScan(ps.statics, ps.textlow, pc, section, b1)

\* The loop of find_pc_sect_psymtab_closer from tpst on.
RECURSIVE CloserLoop(_, _, _, _, _, _)
CloserLoop(tpst, pc, section, msym, best_pst, best_addr) ==
  IF tpst > Len(cat.pst) THEN best_pst
  ELSE IF pc >= cat.pst[tpst].textlow /\ pc < cat.pst[tpst].texthigh
       THEN With(find_pc_sect_psymbol(tpst, pc, section),
              LAMBDA p :
                IF p.found /\ p.addr = cat.msyms[msym].addr THEN tpst
                ELSE IF (IF p.found THEN p.addr ELSE cat.pst[tpst].textlow) > best_addr
                     THEN CloserLoop(tpst + 1, pc, section, msym, tpst,
                                     IF p.found THEN p.addr ELSE cat.pst[tpst].textlow)
                     ELSE CloserLoop(tpst + 1, pc, section, msym, best_pst, best_addr))
       ELSE CloserLoop(tpst + 1, pc, section, msym, best_pst, best_addr)

\* A variant that keeps the first containing psymtab.
find_pc_sect_psymtab_closer_first(pc, section, pst, msym) == pst

find_pc_sect_psymtab_closer(pc, section, pst, msym) ==
  IF ~cat.reordered /\ section = 0 THEN pst
  ELSE IF msym = 0 THEN pst
  ELSE CloserLoop(pst, pc, section, msym, pst, cat.pst[pst].textlow)

\* find_pc_sect_psymtab (pc, section): psymtab index, 0 if none.
find_pc_sect_psymtab(pc, section) ==
  LET msym == lookup_minimal_symbol_by_pc_section(pc, section)
      am == IF cat.addrmap = <<>> \/ pc + 1 > Len(cat.addrmap) THEN 0
            ELSE cat.addrmap[pc + 1]
      amp == IF am = 0 THEN FALSE
             ELSE IF cat.overlay_debugging /\ msym # 0 /\ section # 0
                  THEN LET p == find_pc_sect_psymbol(am, pc, section)
                       IN p.found /\ p.addr = cat.msyms[msym].addr
                  ELSE TRUE
      C == {p \in 1..Len(cat.pst) :
              pc >= cat.pst[p].textlow /\ pc < cat.pst[p].texthigh}
  IN IF msym # 0 /\ cat.msyms[msym].type \in DataTypes THEN 0
     ELSE IF amp THEN am
     ELSE IF C = {} THEN 0
     ELSE find_pc_sect_psymtab_closer(pc, section,
                                      CHOOSE p \in C : \A q \in C : p <= q, msym)

-----------------------------------------------------------------------------
(* Address -> symtab.                                                      *)

\* Does some symbol of block b lie in the section (find_pc_sect_symtab's
\* ALL_BLOCK_SYMBOLS scan after fixup_symbol_section)?
BlockHasSection(b, section) ==
  \E i \in 1..Len(BLOCK_DICT(b)) : BLOCK_DICT(b)[i].sect = section

\* The ALL_PRIMARY_SYMTABS loop of find_pc_sect_symtab.  a is
\* [done, ret, st, best_s, distance]; done means the loop returned ret.
RECURSIVE PcSymtabLoop(_, _, _, _)
PcSymtabLoop(l, pc, section, a) ==
  IF l = <<>> \/ a.done THEN a
  ELSE LET s == Head(l)
           b == BLOCKVECTOR_BLOCK(BLOCKVECTOR(s), GLOBAL_BLOCK)
           hit == /\ BLOCK_START(b) <= pc
                  /\ BLOCK_END(b) > pc
                  /\ (a.distance = 0 \/ BLOCK_END(b) - BLOCK_START(b) < a.distance)
       IN IF ~hit THEN PcSymtabLoop(Tail(l), pc, section, a)
          ELSE With(IF cat.reordered /\ Len(cat.pst) > 0
                    THEN find_pc_sect_psymtab(pc, section) ELSE 0,
                 LAMBDA ps :
                   IF ps # 0
                   THEN With(PSYMTAB_TO_SYMTAB(a.st, ps),
                             LAMBDA r : [a EXCEPT !.done = TRUE, !.ret = r.val, !.st = r.st])
                   ELSE IF section # 0 /\ ~BlockHasSection(b, section)
                        THEN PcSymtabLoop(Tail(l), pc, section, a)
                   ELSE PcSymtabLoop(Tail(l), pc, section,
                                     [a EXCEPT !.distance = BLOCK_END(b) - BLOCK_START(b),
                                               !.best_s = s]))

\* find_pc_sect_symtab (pc, section): [st, val].
find_pc_sect_symtab(s, pc, section) ==
  With(lookup_minimal_symbol_by_pc_section(pc, section),
    LAMBDA msym :
      IF msym # 0 /\ cat.msyms[msym].type \in DataTypes
      THEN [st |-> s, val |-> NoSymtab]
      ELSE With(PcSymtabLoop(PrimaryOnly(s.symtabs), pc, section,
                             [done |-> FALSE, ret |-> NoSymtab, st |-> s,
                              best_s |-> NoSymtab, distance |-> 0]),
             LAMBDA a :
               IF a.done THEN [st |-> a.st, val |-> a.ret]
               ELSE IF a.best_s # NoSymtab THEN [st |-> s, val |-> a.best_s]
               ELSE With(find_pc_sect_psymtab(pc, section),
                      LAMBDA ps : IF ps # 0 THEN PSYMTAB_TO_SYMTAB(s, ps)
                                  ELSE [st |-> s, val |-> NoSymtab])))

-----------------------------------------------------------------------------
(* Address -> line.                                                        *)

\* A variant that stops at the first entry that starts at pc.
RECURSIVE LeadingAtOrBelow_strict(_, _)
LeadingAtOrBelow_strict(l, pc) ==
  IF l = <<>> \/ Head(l).pc >= pc THEN 0
  ELSE 1 + LeadingAtOrBelow_strict(Tail(l), pc)

\* Number of leading entries of line table l that start at or before pc:
\* where the inner for loop of find_pc_sect_line stops.
RECURSIVE LeadingAtOrBelow(_, _)
LeadingAtOrBelow(l, pc) ==
  IF l = <<>> \/ Head(l).pc > pc THEN 0
  ELSE 1 + LeadingAtOrBelow(Tail(l), pc)

\* A variant that takes, whatever the order of the table, the entry with a
\* line whose address is the greatest at or below pc.
LineStep_greatest(l, pc, s, a) ==
  LET C == {i \in 1..Len(l) : l[i].pc <= pc /\ l[i].line # 0}
      k == IF C = {} THEN 0
           ELSE CHOOSE i \in C : \A j \in C : l[j].pc <= l[i].pc
  IN IF k > 0 /\ (~a.has_best \/ l[k].pc > a.best_pc)
     THEN [a EXCEPT !.has_best = TRUE, !.best_line = l[k].line,
                    !.best_pc = l[k].pc, !.best_symtab = s]
     ELSE a

\* A variant whose scan stops one entry late.
LineStep_late(l, pc, s, a) ==
  LET k == Min(LeadingAtOrBelow(l, pc) + 1, Len(l))
      a1 == IF l[1].pc > pc /\ (~a.has_alt \/ l[1].pc < a.alt_pc)
            THEN [a EXCEPT !.has_alt = TRUE, !.alt_pc = l[1].pc] ELSE a
  IN IF k > 0 /\ l[k].line # 0 /\ (~a1.has_best \/ l[k].pc > a1.best_pc)
     THEN [a1 EXCEPT !.has_best = TRUE, !.best_line = l[k].line,
                     !.best_pc = l[k].pc, !.best_symtab = s]
     ELSE a1

\* One iteration of the symtab loop of find_pc_sect_line on a non-empty
\* line table l of symtab s.
LineStep(l, pc, s, a) ==
  LET k == LeadingAtOrBelow(l, pc)
      a1 == IF l[1].pc > pc /\ (~a.has_alt \/ l[1].pc < a.alt_pc)
            THEN [a EXCEPT !.has_alt = TRUE, !.alt_pc = l[1].pc] ELSE a
      a2 == IF k > 0 /\ l[k].line # 0 /\ (~a1.has_best \/ l[k].pc > a1.best_pc)
            THEN [a1 EXCEPT !.has_best = TRUE, !.best_line = l[k].line,
                            !.best_pc = l[k].pc, !.best_symtab = s,
                            !.best_end = IF @ <= l[k].pc THEN 0 ELSE @]
            ELSE a1
  IN IF /\ a2.has_best /\ k < Len(l) /\ l[k + 1].pc > a2.best_pc
        /\ (a2.best_end = 0 \/ a2.best_end > l[k + 1].pc)
     THEN [a2 EXCEPT !.best_end = l[k + 1].pc]
     ELSE a2

\* The loop over the symtabs that share blockvector bv, from list position i.
RECURSIVE LineLoop(_, _, _, _, _)
LineLoop(list, i, bv, pc, a) ==
  IF i > Len(list) \/ BLOCKVECTOR(list[i]) # bv THEN a
  ELSE LET l == LINETABLE(list[i])
       IN IF Len(l) = 0 THEN LineLoop(list, i + 1, bv, pc, a)
          ELSE LineLoop(list, i + 1, bv, pc, LineStep(l, pc, list[i], a))

IndexOf(list, x) == CHOOSE i \in 1..Len(list) : list[i] = x

Sal(symtab, line, pc, end_, section) ==
  [symtab |-> symtab, line |-> line, pc |-> pc, end_ |-> end_, section |-> section]

\* find_pc_sect_line (pc, section, notcurrent): [st, val] with val a sal.
\* fuel bounds the chain of trampoline redirections followed.
RECURSIVE find_pc_sect_line_rec(_, _, _, _, _)
find_pc_sect_line_rec(s, pc0, section, notcurrent, fuel) ==
  LET pc == IF notcurrent THEN pc0 - 1 ELSE pc0
      msym == lookup_minimal_symbol_by_pc_section(pc, 0)
      mfun == IF msym # 0 /\ cat.msyms[msym].type = "mst_solib_trampoline"
              THEN lookup_minimal_symbol_text(cat.msyms[msym].name) ELSE 0
      redirect == /\ mfun # 0
                  /\ cat.msyms[mfun].addr # cat.msyms[msym].addr
                  /\ fuel > 0
  IN IF redirect
     THEN find_pc_sect_line_rec(s, cat.msyms[mfun].addr, 0, FALSE, fuel - 1)
     ELSE With(find_pc_sect_symtab(s, pc, section),
            LAMBDA r :
              IF r.val = NoSymtab
              THEN [st |-> r.st, val |-> Sal(NoSymtab, 0, pc0, 0, 0)]
              ELSE With(LineLoop(r.st.symtabs, IndexOf(r.st.symtabs, r.val),
                                 BLOCKVECTOR(r.val), pc,
                                 [has_best |-> FALSE, best_line |-> 0, best_pc |-> 0,
                                  best_symtab |-> NoSymtab, best_end |-> 0,
                                  has_alt |-> FALSE, alt_pc |-> 0]),
                     LAMBDA a :
                       IF ~a.has_best
                       THEN [st |-> r.st, val |-> Sal(NoSymtab, 0, pc, 0, section)]
                       ELSE [st |-> r.st,
                             val |-> Sal(a.best_symtab, a.best_line, a.best_pc,
                                         IF a.best_end # 0
                                            /\ (~a.has_alt \/ a.best_end < a.alt_pc)
                                         THEN a.best_end
                                         ELSE IF a.has_alt THEN a.alt_pc
                                         ELSE BLOCK_END(BLOCKVECTOR_BLOCK(BLOCKVECTOR(r.val),
                                                                          GLOBAL_BLOCK)),
                                         section)]))

find_pc_sect_line(s, pc, section, notcurrent) ==
  find_pc_sect_line_rec(s, pc, section, notcurrent, Len(cat.msyms))

-----------------------------------------------------------------------------
(* Line -> address.                                                        *)

\* The loop of find_line_common from entry i on: [index, best, exact].
RECURSIVE LineCommonLoop(_, _, _, _)
LineCommonLoop(l, lineno, i, b) ==
  IF i > Len(l) THEN b
  ELSE IF l[i].line = lineno THEN [index |-> i, best |-> b.best, exact |-> TRUE]
  ELSE IF l[i].line > lineno /\ (b.best = 0 \/ l[i].line < b.best)
       THEN LineCommonLoop(l, lineno, i + 1,
                           [index |-> i, best |-> l[i].line, exact |-> FALSE])
       ELSE LineCommonLoop(l, lineno, i + 1, b)

\* A variant that takes the first larger line instead of the smallest.
find_line_common_first(l, lineno) ==
  LET E == {i \in 1..Len(l) : l[i].line = lineno}
      G == {i \in 1..Len(l) : l[i].line > lineno}
  IN IF lineno <= 0 THEN [index |-> 0, exact |-> FALSE]
     ELSE IF E # {} THEN [index |-> CHOOSE i \in E : \A j \in E : i <= j, exact |-> TRUE]
     ELSE IF G # {} THEN [index |-> CHOOSE i \in G : \A j \in G : i <= j, exact |-> FALSE]
     ELSE [index |-> 0, exact |-> FALSE]

\* find_line_common (l, lineno, &exact): [index, exact]; index 0 stands for -1
\* (line table entries are numbered from 1 here).
find_line_common(l, lineno) ==
  IF lineno <= 0 THEN [index |-> 0, exact |-> FALSE]
  ELSE LET b == LineCommonLoop(l, lineno, 1, [index |-> 0, best |-> 0, exact |-> FALSE])
       IN [index |-> b.index, exact |-> b.exact]

\* The first loop of find_line_symtab and of expand_line_sal: read in every
\* psymtab of that file name.
RECURSIVE ReadInByFilename(_, _, _)
ReadInByFilename(s, p, filename) ==
  IF p > Len(cat.pst) THEN s
  ELSE IF cat.pst[p].filename # filename THEN ReadInByFilename(s, p + 1, filename)
  ELSE ReadInByFilename(PSYMTAB_TO_SYMTAB(s, p).st, p + 1, filename)

\* The ALL_SYMTABS loop of find_line_symtab: b is
\* [done, best, index, symtab, exact].
RECURSIVE LineSymtabLoop(_, _, _, _)
LineSymtabLoop(list, filename, line, b) ==
  IF list = <<>> \/ b.done THEN b
  ELSE IF Filename(Head(list)) # filename
       THEN LineSymtabLoop(Tail(list), filename, line, b)
  ELSE With(find_line_common(LINETABLE(Head(list)), line),
         LAMBDA f :
           IF f.index = 0
           THEN LineSymtabLoop(Tail(list), filename, line, [b EXCEPT !.exact = f.exact])
           ELSE IF f.exact
           THEN [done |-> TRUE, best |-> b.best, index |-> f.index,
                 symtab |-> Head(list), exact |-> TRUE]
           ELSE IF b.best = 0 \/ LINETABLE(Head(list))[f.index].line < b.best
           THEN LineSymtabLoop(Tail(list), filename, line,
                               [done |-> FALSE, best |-> LINETABLE(Head(list))[f.index].line,
                                index |-> f.index, symtab |-> Head(list), exact |-> FALSE])
           ELSE LineSymtabLoop(Tail(list), filename, line, [b EXCEPT !.exact = FALSE]))

\* find_line_symtab (symtab, line, &index, &exact_match):
\* [st, val |-> symtab or NoSymtab, index, exact].
find_line_symtab(s, symtab, line) ==
  With(find_line_common(LINETABLE(symtab), line),
    LAMBDA f :
      IF f.index > 0 /\ f.exact
      THEN [st |-> s, val |-> symtab, index |-> f.index, exact |-> TRUE]
      ELSE With(ReadInByFilename(s, 1, Filename(symtab)),
             LAMBDA s1 :
               With(LineSymtabLoop(s1.symtabs, Filename(symtab), line,
                                   [done |-> FALSE,
                                    best |-> IF f.index > 0
                                             THEN LINETABLE(symtab)[f.index].line ELSE 0,
                                    index |-> f.index, symtab |-> symtab,
                                    exact |-> f.exact]),
                 LAMBDA b :
                   IF b.index = 0
                   THEN [st |-> s1, val |-> NoSymtab, index |-> 0, exact |-> b.exact]
                   ELSE [st |-> s1, val |-> b.symtab, index |-> b.index,
                         exact |-> b.exact])))

\* find_line_pc (symtab, line, &pc): [st, ok, pc].
find_line_pc(s, symtab, line) ==
  With(find_line_symtab(s, symtab, line),
    LAMBDA r :
      IF r.val # NoSymtab
      THEN [st |-> r.st, ok |-> TRUE, pc |-> LINETABLE(r.val)[r.index].pc]
      ELSE [st |-> r.st, ok |-> FALSE, pc |-> 0])

-----------------------------------------------------------------------------
(* Names.                                                                  *)

\* The characters names are made of, in ASCII order.
Alphabet == <<" ", "(", "+", "-", "A", "B", "E", "F", "Z", "[", "]",
              "a", "b", "e", "f", "g", "h", "l", "p", "t", "z">>
Ord(c) == CHOOSE i \in 1..Len(Alphabet) : Alphabet[i] = c

\* tolower on one character.
tolower(c) ==
  CASE c = "A" -> "a" [] c = "B" -> "b" [] c = "E" -> "e" [] c = "F" -> "f"
    [] c = "Z" -> "z" [] OTHER -> c
LowerName(n) == [i \in 1..Len(n) |-> tolower(n[i])]

RECURSIVE StripSpaces(_)
StripSpaces(n) ==
  IF n = <<>> THEN <<>>
  ELSE IF Head(n) = " " THEN StripSpaces(Tail(n))
       ELSE <<Head(n)>> \o StripSpaces(Tail(n))

\* Length of the longest common prefix of two names.
RECURSIVE CommonPrefix(_, _)
CommonPrefix(a, b) ==
  IF a = <<>> \/ b = <<>> \/ Head(a) # Head(b) THEN 0
  ELSE 1 + CommonPrefix(Tail(a), Tail(b))

\* strcmp_iw (string1, string2) == 0: equal up to white space, where string1
\* may go on with an argument list.
strcmp_iw_eq(string1, string2) ==
  LET a == StripSpaces(string1)
      b == StripSpaces(string2)
      k == CommonPrefix(a, b)
  IN k = Len(b) /\ (k = Len(a) \/ a[k + 1] = "(")

\* strcmp_iw_ordered (string1, string2): negative, zero or positive.
strcmp_iw_ordered(string1, string2) ==
  LET a == StripSpaces(string1)
      b == StripSpaces(string2)
      k == CommonPrefix(a, b)
  IN IF k = Len(a) THEN (IF k = Len(b) THEN 0 ELSE -1)
     ELSE IF a[k + 1] = "(" THEN (IF k = Len(b) THEN 1 ELSE -1)
     ELSE IF k = Len(b) THEN Ord(a[k + 1])
     ELSE IF b[k + 1] = "(" THEN 1
     ELSE Ord(a[k + 1]) - Ord(b[k + 1])

\* strncmp (symname, sym_text, sym_text_len) == 0 with sym_text_len the
\* length of sym_text.
HasPrefix(symname, sym_text) ==
  /\ Len(symname) >= Len(sym_text)
  /\ SubSeq(symname, 1, Len(sym_text)) = sym_text

\* cplus_demangle: a name mangled by the C++ ABI starts with the marker Z
\* and decodes to what follows it; any other name does not demangle.
cplus_demangle(n) ==
  IF Len(n) >= 2 /\ n[1] = "Z" THEN SubSeq(n, 2, Len(n)) ELSE NoName

\* symbol_natural_name (gsymbol).
symbol_natural_name(y) ==
  IF y.language \in {"language_cplus", "language_java", "language_objc"}
     /\ y.demangled # NoName
  THEN y.demangled
  ELSE y.name

\* symbol_search_name (gsymbol).
symbol_search_name(y) ==
  IF y.language = "language_ada" THEN y.name ELSE symbol_natural_name(y)

SYMBOL_MATCHES_SEARCH_NAME(y, name) == strcmp_iw_eq(symbol_search_name(y), name)

-----------------------------------------------------------------------------
(* Name lookup in one block and in one partial symtab.                     *)

\* A variant that requires the domains to be the same in every language.
symbol_matches_domain_strict(symbol_language, symbol_domain, domain) ==
  symbol_domain = domain

\* symbol_matches_domain (symbol_language, symbol_domain, domain).
symbol_matches_domain(symbol_language, symbol_domain, domain) ==
  IF /\ symbol_language \in {"language_cplus", "language_java", "language_ada"}
     /\ domain \in {"VAR_DOMAIN", "STRUCT_DOMAIN"}
     /\ symbol_domain = "STRUCT_DOMAIN"
  THEN TRUE
  ELSE symbol_domain = domain

\* The dictionary positions lookup_block_symbol accepts, in dictionary order.
BlockMatches(block, name, linkage_name, domain) ==
  {i \in 1..Len(BLOCK_DICT(block)) :
     LET y == BLOCK_DICT(block)[i] IN
     /\ SYMBOL_MATCHES_SEARCH_NAME(y, name)
     /\ symbol_matches_domain(y.language, y.domain, domain)
     /\ (linkage_name # NoName => y.name = linkage_name)}

First(S) == CHOOSE i \in S : \A j \in S : i <= j
Last(S) == CHOOSE i \in S : \A j \in S : j <= i

\* A variant that returns the first match in a function's block as well.
lookup_block_symbol_first(block, name, linkage_name, domain) ==
  With(BlockMatches(block, name, linkage_name, domain),
    LAMBDA M : IF M = {} THEN NoSym ELSE <<block[1], block[2], First(M)>>)

\* lookup_block_symbol (block, name, linkage_name, domain): symbol or NoSym.
lookup_block_symbol(block, name, linkage_name, domain) ==
  With(BlockMatches(block, name, linkage_name, domain),
    LAMBDA M :
      IF M = {} THEN NoSym
      ELSE IF ~BLOCK_FUNCTION(block) THEN <<block[1], block[2], First(M)>>
      ELSE With({i \in M : ~BLOCK_DICT(block)[i].is_arg},
             LAMBDA NonArg :
               IF NonArg # {} THEN <<block[1], block[2], First(NonArg)>>
               ELSE <<block[1], block[2], Last(M)>>))

\* The binary search of lookup_partial_symbol on list[bottom..top]:
\* [top, java] with java set when a Java psymbol was probed.
RECURSIVE PsymBinarySearch(_, _, _, _, _)
PsymBinarySearch(list, name, bottom, top, java) ==
  IF ~(top > bottom) THEN [top |-> top, bottom |-> bottom, java |-> java]
  ELSE LET center == bottom + ((top - bottom) \div 2)
           j == java \/ list[center].language = "language_java"
       IN IF strcmp_iw_ordered(symbol_search_name(list[center]), name) >= 0
          THEN PsymBinarySearch(list, name, bottom, center, j)
          ELSE PsymBinarySearch(list, name, center + 1, top, j)

PsymNameMatch(y, name, linkage_name) ==
  IF linkage_name # NoName THEN y.name = linkage_name
  ELSE SYMBOL_MATCHES_SEARCH_NAME(y, name)

\* The second while loop of lookup_partial_symbol: walk up from top while
\* the name matches, returning the first entry of the right domain (0: none).
RECURSIVE PsymWalk(_, _, _, _, _)
PsymWalk(list, top, name, linkage_name, domain) ==
  IF top > Len(list) \/ ~PsymNameMatch(list[top], name, linkage_name) THEN 0
  ELSE IF symbol_matches_domain(list[top].language, list[top].domain, domain) THEN top
  ELSE PsymWalk(list, top + 1, name, linkage_name, domain)

PsymLinear(list, name, linkage_name, domain) ==
  LET M == {i \in 1..Len(list) :
              /\ symbol_matches_domain(list[i].language, list[i].domain, domain)
              /\ PsymNameMatch(list[i], name, linkage_name)}
  IN IF M = {} THEN 0 ELSE First(M)

\* lookup_partial_symbol (pst, name, linkage_name, global, domain): TRUE
\* when a partial symbol is returned.
lookup_partial_symbol(p, name, linkage_name, global, domain) ==
  LET list == IF global THEN cat.pst[p].globals ELSE cat.pst[p].statics
  IN IF Len(list) = 0 THEN FALSE
     ELSE IF global
          THEN With(PsymBinarySearch(list, name, 1, Len(list), FALSE),
                 LAMBDA b :
                   IF PsymWalk(list, b.top, name, linkage_name, domain) # 0 THEN TRUE
                   ELSE IF b.java THEN PsymLinear(list, name, linkage_name, domain) # 0
                   ELSE FALSE)
          ELSE PsymLinear(list, name, linkage_name, domain) # 0

-----------------------------------------------------------------------------
(* Scoped name lookup.  Every lookup yields                                *)
(*   [st, val |-> symbol or NoSym, field |-> is_a_field_of_this, err].     *)
(* err is "" on a normal return, else the error that ended the call.       *)

Found(s, y) == [st |-> s, val |-> y, field |-> FALSE, err |-> ""]
NotFound(s) == [st |-> s, val |-> NoSym, field |-> FALSE, err |-> ""]
Failed(s, e) == [st |-> s, val |-> NoSym, field |-> FALSE, err |-> e]

\* block_static_block (block).
RECURSIVE StaticBlockUp(_)
StaticBlockUp(block) ==
  IF BLOCK_SUPERBLOCK(BLOCK_SUPERBLOCK(block)) = NoBlock THEN block
  ELSE StaticBlockUp(BLOCK_SUPERBLOCK(block))

block_static_block(block) ==
  IF block = NoBlock \/ BLOCK_SUPERBLOCK(block) = NoBlock THEN NoBlock
  ELSE StaticBlockUp(block)

\* lookup_symbol_aux_block (name, linkage_name, block, domain).
lookup_symbol_aux_block(s, name, linkage_name, block, domain) ==
  With(lookup_block_symbol(block, name, linkage_name, domain),
    LAMBDA y : IF y # NoSym THEN Found([s EXCEPT !.block_found = block], y)
               ELSE NotFound(s))

\* The while loop of lookup_symbol_aux_local.
RECURSIVE LocalWalk(_, _, _, _, _, _)
LocalWalk(s, name, linkage_name, block, static_block, domain) ==
  IF block = static_block THEN NotFound(s)
  ELSE With(lookup_symbol_aux_block(s, name, linkage_name, block, domain),
         LAMBDA r :
           IF r.val # NoSym THEN r
           ELSE LocalWalk(s, name, linkage_name, BLOCK_SUPERBLOCK(block),
                          static_block, domain))

\* A variant that looks only at the context block itself.
lookup_symbol_aux_local_shallow(s, name, linkage_name, block, domain) ==
  With(block_static_block(block),
    LAMBDA static_block :
      IF static_block = NoBlock \/ block = static_block THEN NotFound(s)
      ELSE lookup_symbol_aux_block(s, name, linkage_name, block, domain))

\* lookup_symbol_aux_local (name, linkage_name, block, domain).
lookup_symbol_aux_local(s, name, linkage_name, block, domain) ==
  With(block_static_block(block),
    LAMBDA static_block :
      IF static_block = NoBlock THEN NotFound(s)
      ELSE LocalWalk(s, name, linkage_name, block, static_block, domain))

\* A variant that looks into every block of a symtab, not just the block at
\* block_index.
RECURSIVE SymtabsLoop_anyblock(_, _, _, _, _, _)
SymtabsLoop_anyblock(s, list, block_index, name, linkage_name, domain) ==
  IF list = <<>> THEN NotFound(s)
  ELSE LET bv == BLOCKVECTOR(Head(list))
           B == {n \in DOMAIN Unit(bv).blocks :
                   lookup_block_symbol(<<bv, n>>, name, linkage_name, domain) # NoSym}
       IN IF B # {}
          THEN Found(s, lookup_block_symbol(<<bv, CHOOSE n \in B : TRUE>>,
                                            name, linkage_name, domain))
          ELSE SymtabsLoop_anyblock(s, Tail(list), block_index, name, linkage_name, domain)

\* lookup_symbol_aux_symtabs (block_index, name, linkage_name, domain).
RECURSIVE SymtabsLoop(_, _, _, _, _, _)
SymtabsLoop(s, list, block_index, name, linkage_name, domain) ==
  IF list = <<>> THEN NotFound(s)
  ELSE With(lookup_block_symbol(BLOCKVECTOR_BLOCK(BLOCKVECTOR(Head(list)), block_index),
                                name, linkage_name, domain),
         LAMBDA y :
           IF y # NoSym
           THEN Found([s EXCEPT !.block_found =
                         BLOCKVECTOR_BLOCK(BLOCKVECTOR(Head(list)), block_index)], y)
           ELSE SymtabsLoop(s, Tail(list), block_index, name, linkage_name, domain))

lookup_symbol_aux_symtabs(s, block_index, name, linkage_name, domain) ==
  SymtabsLoop(s, PrimaryOnly(s.symtabs), block_index, name, linkage_name, domain)

OtherBlock(block_index) ==
  IF block_index = GLOBAL_BLOCK THEN STATIC_BLOCK ELSE GLOBAL_BLOCK

\* lookup_symbol_aux_psymtabs (block_index, name, linkage_name, domain).
lookup_symbol_aux_psymtabs(s, block_index, name, linkage_name, domain) ==
  With({p \in 1..Len(cat.pst) :
          /\ ~s.readin[p]
          /\ lookup_partial_symbol(p, name, linkage_name,
                                   block_index = GLOBAL_BLOCK, domain)},
    LAMBDA C :
      IF C = {} THEN NotFound(s)
      ELSE With(PSYMTAB_TO_SYMTAB(s, First(C)),
             LAMBDA r :
               IF r.val = NoSymtab THEN Failed(r.st, "segv")
               ELSE With(lookup_block_symbol(
                           BLOCKVECTOR_BLOCK(BLOCKVECTOR(r.val), block_index),
                           name, linkage_name, domain),
                      LAMBDA y1 :
                        IF y1 # NoSym THEN Found(r.st, y1)
                        ELSE With(lookup_block_symbol(
                                    BLOCKVECTOR_BLOCK(BLOCKVECTOR(r.val),
                                                      OtherBlock(block_index)),
                                    name, linkage_name, domain),
                               LAMBDA y2 :
                                 IF y2 # NoSym THEN Found(r.st, y2)
                                 ELSE Failed(r.st, "internal")))))

\* lookup_symbol_static (name, linkage_name, block, domain).
lookup_symbol_static(s, name, linkage_name, block, domain) ==
  With(block_static_block(block),
    LAMBDA static_block :
      IF static_block # NoBlock
      THEN lookup_symbol_aux_block(s, name, linkage_name, static_block, domain)
      ELSE NotFound(s))

\* lookup_symbol_global (name, linkage_name, block, domain); the
\* library-specific hook finds nothing.
lookup_symbol_global(s, name, linkage_name, block, domain) ==
  With(lookup_symbol_aux_symtabs(s, GLOBAL_BLOCK, name, linkage_name, domain),
    LAMBDA r :
      IF r.val # NoSym THEN r
      ELSE lookup_symbol_aux_psymtabs(s, GLOBAL_BLOCK, name, linkage_name, domain))

\* basic_lookup_symbol_nonlocal (name, linkage_name, block, domain).
basic_lookup_symbol_nonlocal(s, name, linkage_name, block, domain) ==
  With(lookup_symbol_static(s, name, linkage_name, block, domain),
    LAMBDA r :
      IF r.val # NoSym THEN r
      ELSE lookup_symbol_global(s, name, linkage_name, block, domain))

\* langdef->la_name_of_this, NoName when the language has none; t stands for
\* "this" and e for "self".
la_name_of_this(language) ==
  CASE language \in {"language_cplus", "language_java"} -> <<"t">>
    [] language = "language_objc" -> <<"e">>
    [] OTHER -> NoName

\* The enclosing function block: the for loop of lookup_symbol_aux.
RECURSIVE FunctionBlockUp(_)
FunctionBlockUp(block) ==
  IF block = NoBlock \/ BLOCK_FUNCTION(block) THEN block
  ELSE FunctionBlockUp(BLOCK_SUPERBLOCK(block))

\* The receiver check of lookup_symbol_aux: "field", "error" or "none".
ThisCheck(block, name, language) ==
  With(FunctionBlockUp(block),
    LAMBDA fb :
      With(IF fb # NoBlock /\ Len(BLOCK_DICT(fb)) > 0
           THEN lookup_block_symbol(fb, la_name_of_this(language), NoName, "VAR_DOMAIN")
           ELSE NoSym,
        LAMBDA y :
          IF y = NoSym THEN "none"
          ELSE With(SymRec(y).type,
                 LAMBDA t :
                   IF (IF t.code \in {"TYPE_CODE_PTR", "TYPE_CODE_REF"}
                       THEN t.target ELSE t.code)
                      \notin {"TYPE_CODE_STRUCT", "TYPE_CODE_UNION"} THEN "error"
                   ELSE IF \E i \in 1..Len(t.fields) : t.fields[i] = name THEN "field"
                   ELSE "none")))

\* The rest of lookup_symbol_aux after the local pass and the receiver check.
LookupNonlocal(s, name, linkage_name, block, domain) ==
  With(basic_lookup_symbol_nonlocal(s, name, linkage_name, block, domain),
    LAMBDA r1 :
      IF r1.val # NoSym \/ r1.err # "" THEN r1
      ELSE With(lookup_symbol_aux_symtabs(r1.st, STATIC_BLOCK, name, linkage_name, domain),
             LAMBDA r2 :
               IF r2.val # NoSym THEN r2
               ELSE lookup_symbol_aux_psymtabs(r2.st, STATIC_BLOCK, name,
                                               linkage_name, domain)))

\* A variant that tries the file-level scopes before the local walk.
lookup_symbol_aux_global_first(s, name, linkage_name, block, domain, language, want_field) ==
  With(LookupNonlocal(s, name, linkage_name, block, domain),
    LAMBDA r :
      IF r.val # NoSym \/ r.err # "" THEN r
      ELSE lookup_symbol_aux_local(r.st, name, linkage_name, block, domain))

\* A variant that checks the receiver's fields only after the file-level
\* scopes found nothing.
lookup_symbol_aux_field_last(s, name, linkage_name, block, domain, language, want_field) ==
  With(lookup_symbol_aux_local(s, name, linkage_name, block, domain),
    LAMBDA r :
      IF r.val # NoSym THEN r
      ELSE With(LookupNonlocal(s, name, linkage_name, block, domain),
             LAMBDA n :
               IF n.val # NoSym \/ n.err # "" THEN n
               ELSE IF /\ la_name_of_this(language) # NoName /\ want_field
                       /\ block # NoBlock
                       /\ ThisCheck(block, name, language) = "field"
               THEN [st |-> n.st, val |-> NoSym, field |-> TRUE, err |-> ""]
               ELSE n))

\* lookup_symbol_aux (name, linkage_name, block, domain, language,
\* is_a_field_of_this); want_field: is_a_field_of_this is non-null.
lookup_symbol_aux(s, name, linkage_name, block, domain, language, want_field) ==
  With(lookup_symbol_aux_local(s, name, linkage_name, block, domain),
    LAMBDA r :
      IF r.val # NoSym THEN r
      ELSE IF la_name_of_this(language) # NoName /\ want_field /\ block # NoBlock
      THEN With(ThisCheck(block, name, language),
             LAMBDA tc :
               IF tc = "error" THEN Failed(s, "not_aggregate")
               ELSE IF tc = "field"
               THEN [st |-> s, val |-> NoSym, field |-> TRUE, err |-> ""]
               ELSE LookupNonlocal(s, name, linkage_name, FunctionBlockUp(block), domain))
      ELSE LookupNonlocal(s, name, linkage_name, block, domain))

\* A variant that compares names without lower-casing the query.
lookup_symbol_in_language_nolower(s, name, block, domain, lang, want_field) ==
  With(IF lang \in {"language_cplus", "language_java"}
       THEN cplus_demangle(name) ELSE NoName,
    LAMBDA demangled_name :
      lookup_symbol_aux(s, IF demangled_name # NoName THEN demangled_name ELSE name,
                        IF demangled_name # NoName THEN name ELSE NoName,
                        block, domain, lang, want_field))

\* The locals of lookup_symbol_in_language at its call of lookup_symbol_aux.
\* demangled_name: set for C++ and Java queries the demangler accepts.
demangled_name(name, lang) ==
  IF lang \in {"language_cplus", "language_java"}
  THEN cplus_demangle(name) ELSE NoName

\* modified_name: the query, replaced by its demangled form, replaced in
\* turn by the lower-cased query when case sensitivity is off.
modified_name(name, lang) ==
  IF cat.case_off THEN LowerName(name)
  ELSE IF demangled_name(name, lang) # NoName THEN demangled_name(name, lang)
  ELSE name

\* mangled_name: the query as typed, if it demangled.
mangled_name(name, lang) ==
  IF demangled_name(name, lang) # NoName THEN name ELSE NoName

\* lookup_symbol_in_language (name, block, domain, lang, is_a_field_of_this).
lookup_symbol_in_language(s, name, block, domain, lang, want_field) ==
  lookup_symbol_aux(s, modified_name(name, lang), mangled_name(name, lang),
                    block, domain, lang, want_field)

-----------------------------------------------------------------------------
(* Symbol search.                                                          *)

\* re_comp fails on a pattern with an unterminated bracket expression.
ValidRegexp(regexp) ==
  \A i \in 1..Len(regexp) :
     regexp[i] = "[" => \E j \in (i + 1)..Len(regexp) : regexp[j] = "]"

\* re_exec for a pattern without operators: it occurs somewhere in the name.
re_exec(regexp, name) ==
  \E i \in 0..(Len(name) - Len(regexp)) :
     SubSeq(name, i + 1, i + Len(regexp)) = regexp

RegexpMatches(regexp, name) == regexp = NoName \/ re_exec(regexp, name)

\* file_matches (file, files, nfiles); files is a sequence of base names.
file_matches(file, files) ==
  IF Len(files) # 0 THEN \E i \in 1..Len(files) : files[i] = file
  ELSE TRUE

\* The class test search_symbols applies to a partial symbol.
PsymKindMatches(kind, class) ==
  \/ (kind = "VARIABLES_DOMAIN" /\ class # "LOC_TYPEDEF" /\ class # "LOC_BLOCK")
  \/ (kind = "FUNCTIONS_DOMAIN" /\ class = "LOC_BLOCK")
  \/ (kind = "TYPES_DOMAIN" /\ class = "LOC_TYPEDEF")
  \/ (kind = "METHODS_DOMAIN" /\ class = "LOC_BLOCK")

\* A variant of the class test that lets functions through as variables.
SymKindMatches_loose(kind, class) ==
  \/ (kind = "VARIABLES_DOMAIN" /\ class # "LOC_TYPEDEF" /\ class # "LOC_CONST")
  \/ (kind = "FUNCTIONS_DOMAIN" /\ class = "LOC_BLOCK")
  \/ (kind = "TYPES_DOMAIN" /\ class = "LOC_TYPEDEF")
  \/ (kind = "METHODS_DOMAIN" /\ class = "LOC_BLOCK")

\* The class test search_symbols applies to a full symbol.
SymKindMatches(kind, class) ==
  \/ (kind = "VARIABLES_DOMAIN" /\ class # "LOC_TYPEDEF" /\ class # "LOC_BLOCK"
      /\ class # "LOC_CONST")
  \/ (kind = "FUNCTIONS_DOMAIN" /\ class = "LOC_BLOCK")
  \/ (kind = "TYPES_DOMAIN" /\ class = "LOC_TYPEDEF")
  \/ (kind = "METHODS_DOMAIN" /\ class = "LOC_BLOCK")

\* ourtype .. ourtype4 for a search kind.
OurTypes(kind) ==
  CASE kind = "VARIABLES_DOMAIN" -> {"mst_data", "mst_bss", "mst_file_data", "mst_file_bss"}
    [] kind = "FUNCTIONS_DOMAIN" -> {"mst_text", "mst_file_text", "mst_solib_trampoline"}
    [] kind = "TYPES_DOMAIN" -> {"mst_abs"}
    [] OTHER -> {"mst_unknown"}

\* The scan accumulator: catalog state, QUIT polls made so far, whether the
\* scan was cancelled or failed, and what it has collected.
Scan0(s) == [st |-> s, polls |-> 0, quit |-> FALSE, err |-> "",
             found_misc |-> FALSE, out |-> <<>>]

\* Position of the first partial symbol of list that makes search_symbols
\* read the psymtab in, 0 if none.
FirstPsymMatch(list, filename, regexp, kind, files) ==
  LET M == {i \in 1..Len(list) :
              /\ file_matches(filename, files)
              /\ RegexpMatches(regexp, symbol_natural_name(list[i]))
              /\ PsymKindMatches(kind, list[i].class)}
  IN IF M = {} THEN 0 ELSE First(M)

\* A variant whose cancellation throws away what the scan has read in.
SearchPsymtabs_discard(a, p, regexp, kind, files, cancel) ==
  [a EXCEPT !.quit = TRUE,
            !.st = [@ EXCEPT !.readin = [q \in DOMAIN @ |-> FALSE]]]

\* The ALL_PSYMTABS pass of search_symbols from psymtab p on; cancel is the
\* number of the QUIT poll that finds the cancellation signal set (0: none).
RECURSIVE SearchPsymtabs(_, _, _, _, _, _)
SearchPsymtabs(a, p, regexp, kind, files, cancel) ==
  IF p > Len(cat.pst) THEN a
  ELSE IF a.st.readin[p] THEN SearchPsymtabs(a, p + 1, regexp, kind, files, cancel)
  ELSE With(FirstPsymMatch(cat.pst[p].globals \o cat.pst[p].statics,
                           cat.pst[p].filename, regexp, kind, files),
         LAMBDA m :
           With(IF m = 0 THEN Len(cat.pst[p].globals) + Len(cat.pst[p].statics) ELSE m,
             LAMBDA n :
               IF cancel > a.polls /\ cancel <= a.polls + n
               THEN [a EXCEPT !.quit = TRUE, !.polls = cancel]
               ELSE SearchPsymtabs(
                      [a EXCEPT !.polls = @ + n,
                                !.st = IF m = 0 THEN @ ELSE PSYMTAB_TO_SYMTAB(@, p).st],
                      p + 1, regexp, kind, files, cancel)))

\* The msymbols the two minimal-symbol passes look at.
MsymSelected(i, regexp, kind) ==
  /\ cat.msyms[i].type \in OurTypes(kind)
  /\ RegexpMatches(regexp, cat.msyms[i].name)

\* The first minimal-symbol pass of search_symbols, from msymbol i on.
RECURSIVE SearchMsymsForce(_, _, _, _)
SearchMsymsForce(a, i, regexp, kind) ==
  IF i > Len(cat.msyms) \/ a.err # "" THEN a
  ELSE IF ~MsymSelected(i, regexp, kind) THEN SearchMsymsForce(a, i + 1, regexp, kind)
  ELSE With(find_pc_sect_symtab(a.st, cat.msyms[i].addr, 0),
         LAMBDA r :
           IF r.val # NoSymtab
           THEN SearchMsymsForce([a EXCEPT !.st = r.st], i + 1, regexp, kind)
           ELSE IF kind = "FUNCTIONS_DOMAIN"
           THEN SearchMsymsForce([a EXCEPT !.st = r.st, !.found_misc = TRUE],
                                 i + 1, regexp, kind)
           ELSE With(lookup_symbol_in_language(r.st, cat.msyms[i].name, NoBlock,
                                               "VAR_DOMAIN", cat.language, FALSE),
                  LAMBDA l :
                    SearchMsymsForce(
                      [a EXCEPT !.st = l.st, !.err = l.err,
                                !.found_misc = @ \/ (l.val = NoSym /\ l.err = "")],
                      i + 1, regexp, kind)))

\* The matches of one block, in dictionary order.
BlockSearchMatches(b, regexp, kind, files) ==
  LET d == BLOCK_DICT(b)
      keep(i) == /\ file_matches(Unit(b[1]).symtabs[d[i].symtab].filename, files)
                 /\ RegexpMatches(regexp, symbol_natural_name(d[i]))
                 /\ SymKindMatches(kind, d[i].class)
      F[i \in 0..Len(d)] ==
        IF i = 0 THEN <<>>
        ELSE IF keep(i) THEN Append(F[i - 1], <<b[1], b[2], i>>) ELSE F[i - 1]
  IN F[Len(d)]

\* compare_search_syms (sa, sb) < 0: strcmp on the print names.
NameLess(a, b) ==
  LET k == CommonPrefix(a, b)
  IN IF k = Len(a) THEN k < Len(b)
     ELSE IF k = Len(b) THEN FALSE
     ELSE Ord(a[k + 1]) < Ord(b[k + 1])

RECURSIVE InsertSorted(_, _)
InsertSorted(sorted, y) ==
  IF sorted = <<>> THEN <<y>>
  ELSE IF NameLess(symbol_natural_name(SymRec(y)), symbol_natural_name(SymRec(Head(sorted))))
       THEN <<y>> \o sorted
       ELSE <<Head(sorted)>> \o InsertSorted(Tail(sorted), y)

\* A variant that leaves the run in dictionary order.
sort_search_symbols_unsorted(run) == run

\* sort_search_symbols (prevtail, nfound) on the run just collected.
RECURSIVE sort_search_symbols(_)
sort_search_symbols(run) ==
  IF run = <<>> THEN <<>>
  ELSE InsertSorted(sort_search_symbols(SubSeq(run, 1, Len(run) - 1)), run[Len(run)])

\* One block of the ALL_PRIMARY_SYMTABS pass: a QUIT poll per symbol.
SearchBlock(a, b, regexp, kind, files, cancel) ==
  IF a.quit THEN a
  ELSE IF cancel > a.polls /\ cancel <= a.polls + Len(BLOCK_DICT(b))
  THEN [a EXCEPT !.quit = TRUE, !.polls = cancel]
  ELSE With(sort_search_symbols(BlockSearchMatches(b, regexp, kind, files)),
         LAMBDA sorted :
           [a EXCEPT !.polls = @ + Len(BLOCK_DICT(b)),
                     !.out = @ \o [i \in 1..Len(sorted) |->
                                     [block |-> b[2],
                                      symtab |-> <<b[1], SymRec(sorted[i]).symtab>>,
                                      symbol |-> sorted[i], msymbol |-> 0]]])

RECURSIVE SearchSymtabs(_, _, _, _, _, _)
SearchSymtabs(a, list, regexp, kind, files, cancel) ==
  IF list = <<>> \/ a.quit THEN a
  ELSE SearchSymtabs(
         SearchBlock(SearchBlock(a, BLOCKVECTOR_BLOCK(BLOCKVECTOR(Head(list)), GLOBAL_BLOCK),
                                 regexp, kind, files, cancel),
                     BLOCKVECTOR_BLOCK(BLOCKVECTOR(Head(list)), STATIC_BLOCK),
                     regexp, kind, files, cancel),
         Tail(list), regexp, kind, files, cancel)

\* The last pass of search_symbols: minimal symbols without debug info.
RECURSIVE SearchMsymsFinal(_, _, _, _)
SearchMsymsFinal(a, i, regexp, kind) ==
  IF i > Len(cat.msyms) \/ a.err # "" THEN a
  ELSE IF ~MsymSelected(i, regexp, kind) THEN SearchMsymsFinal(a, i + 1, regexp, kind)
  ELSE With(IF kind = "FUNCTIONS_DOMAIN"
            THEN find_pc_sect_symtab(a.st, cat.msyms[i].addr, 0)
            ELSE [st |-> a.st, val |-> NoSymtab],
         LAMBDA r :
           IF r.val # NoSymtab
           THEN SearchMsymsFinal([a EXCEPT !.st = r.st], i + 1, regexp, kind)
           ELSE With(lookup_symbol_in_language(r.st, cat.msyms[i].name, NoBlock,
                                               "VAR_DOMAIN", cat.language, FALSE),
                  LAMBDA l :
                    IF l.val = NoSym /\ l.err = ""
                    THEN SearchMsymsFinal(
                           [a EXCEPT !.st = l.st,
                                     !.out = Append(@, [block |-> IF PrimaryOnly(a.st.symtabs) = <<>>
                                                                   THEN GLOBAL_BLOCK ELSE "past",
                                                        symtab |-> NoSymtab,
                                                        symbol |-> NoSym, msymbol |-> i])],
                           i + 1, regexp, kind)
                    ELSE SearchMsymsFinal([a EXCEPT !.st = l.st, !.err = l.err],
                                          i + 1, regexp, kind)))

\* search_symbols (regexp, kind, nfiles, files, &matches), cancelled at QUIT
\* poll number cancel (0: never).  The result is the scan accumulator.
search_symbols(s, regexp, kind, files, cancel) ==
  IF regexp # NoName /\ ~ValidRegexp(regexp)
  THEN [Scan0(s) EXCEPT !.err = "invalid_regexp"]
  ELSE With(SearchPsymtabs(Scan0(s), 1, regexp, kind, files, cancel),
    LAMBDA a1 :
      IF a1.quit THEN a1
      ELSE With(IF Len(files) = 0 /\ kind \in {"VARIABLES_DOMAIN", "FUNCTIONS_DOMAIN"}
                THEN SearchMsymsForce(a1, 1, regexp, kind) ELSE a1,
        LAMBDA a2 :
          IF a2.err # "" THEN a2
          ELSE With(SearchSymtabs(a2, PrimaryOnly(a2.st.symtabs), regexp, kind,
                                  files, cancel),
            LAMBDA a3 :
              IF a3.quit THEN a3
              ELSE IF a3.found_misc \/ kind # "FUNCTIONS_DOMAIN"
              THEN SearchMsymsFinal(a3, 1, regexp, kind)
              ELSE a3)))

-----------------------------------------------------------------------------
(* Symbol completion.                                                      *)

IsSymChar(c) == c \notin {" ", "(", ")", "+", "-", "[", "]", "'", "\"", "\\"}

FirstIndexOf(n, c) ==
  LET M == {i \in 1..Len(n) : n[i] = c} IN IF M = {} THEN 0 ELSE First(M)

\* The quote scan of default_make_symbol_completion_list over text from
\* position i: q is [found, pos], the open quote character and its position.
RECURSIVE QuoteScan(_, _, _)
QuoteScan(text, i, q) ==
  IF i > Len(text) THEN q
  ELSE IF q.found # "" THEN
         IF text[i] = q.found THEN QuoteScan(text, i + 1, [q EXCEPT !.found = ""])
         ELSE IF text[i] = "\\" /\ i < Len(text) /\ text[i + 1] = q.found
         THEN QuoteScan(text, i + 2, q)
         ELSE QuoteScan(text, i + 1, q)
  ELSE IF text[i] \in {"'", "\""} THEN QuoteScan(text, i + 1, [found |-> text[i], pos |-> i])
  ELSE QuoteScan(text, i + 1, q)

\* Start (as the number of characters before it) of the longest suffix of
\* text made of symbol characters.
RECURSIVE SymStart(_, _)
SymStart(text, p) ==
  IF p > 0 /\ IsSymChar(text[p]) THEN SymStart(text, p - 1) ELSE p

\* Where sym_text starts in text (characters before it); -1 when the text
\* ends inside a double-quoted string.
SymTextStart(text) ==
  LET q == QuoteScan(text, 1, [found |-> "", pos |-> 0])
  IN IF q.found = "'" THEN q.pos
     ELSE IF q.found = "\"" THEN -1
     ELSE SymStart(text, Len(text))

\* A variant that offers every name.
completion_list_add_name_all(out, symname, text, start, word) ==
  Append(out, symname)

\* completion_list_add_name (symname, sym_text, sym_text_len, text, word):
\* out with the completion appended when symname starts with sym_text.
\* start and word are the offsets of sym_text and of word in text.
completion_list_add_name(out, symname, text, start, word) ==
  LET sym_text == SubSeq(text, start + 1, Len(text))
  IN IF ~HasPrefix(symname, sym_text) THEN out
     ELSE IF word = start THEN Append(out, symname)
     ELSE IF word > start
          THEN Append(out, SubSeq(symname, word - start + 1, Len(symname)))
          ELSE Append(out, SubSeq(text, word + 1, start) \o symname)

\* completion_list_objc_symbol (msymbol, sym_text, sym_text_len, text, word).
completion_list_objc_symbol(out, method, text, start, word) ==
  LET bracket == start < Len(text) /\ text[start + 1] = "["
      sp == FirstIndexOf(method, " ")
      cat_ == FirstIndexOf(method, "(")
      selector == SubSeq(method, sp + 1, Len(method))
      tmp == SubSeq(method, 1, cat_ - 1) \o <<" ">> \o selector
      close == FirstIndexOf(selector, "]")
      sel_only == IF close = 0 THEN selector ELSE SubSeq(selector, 1, close - 1)
      o1 == IF bracket
            THEN completion_list_add_name(out, Tail(method), text, start, word)
            ELSE out
      o2 == IF cat_ # 0 /\ sp # 0
            THEN completion_list_add_name(o1, tmp, text, start, word)
            ELSE o1
      o3 == IF cat_ # 0 /\ sp # 0 /\ bracket
            THEN completion_list_add_name(o2, Tail(tmp), text, start, word)
            ELSE o2
  IN IF method = <<>> \/ method[1] \notin {"-", "+"} THEN out
     ELSE IF sp # 0 THEN completion_list_add_name(o3, sel_only, text, start, word)
     ELSE o3

\* Offer the natural names of list[1..n].
RECURSIVE AddNames(_, _, _, _, _, _)
AddNames(out, list, n, text, start, word) ==
  IF n = 0 THEN out
  ELSE completion_list_add_name(AddNames(out, list, n - 1, text, start, word),
                                symbol_natural_name(list[n]), text, start, word)

\* Offer the field names fields[1..n] of a struct or union type.
RECURSIVE AddFields(_, _, _, _, _, _)
AddFields(out, fields, n, text, start, word) ==
  IF n = 0 THEN out
  ELSE completion_list_add_name(AddFields(out, fields, n - 1, text, start, word),
                                fields[n], text, start, word)

\* Offer the symbols d[1..n] of a block on the way up from the selected
\* block, with the fields of the struct and union types among them.
RECURSIVE AddBlockSyms(_, _, _, _, _, _)
AddBlockSyms(out, d, n, text, start, word) ==
  IF n = 0 THEN out
  ELSE With(completion_list_add_name(AddBlockSyms(out, d, n - 1, text, start, word),
                                     symbol_natural_name(d[n]), text, start, word),
         LAMBDA o1 :
           IF d[n].class = "LOC_TYPEDEF"
              /\ d[n].type.code \in {"TYPE_CODE_UNION", "TYPE_CODE_STRUCT"}
           THEN AddFields(o1, d[n].type.fields, Len(d[n].type.fields), text, start, word)
           ELSE o1)

\* Offer the minimal symbols 1..n.
RECURSIVE AddMsyms(_, _, _, _, _)
AddMsyms(out, n, text, start, word) ==
  IF n = 0 THEN out
  ELSE completion_list_objc_symbol(
         completion_list_add_name(AddMsyms(out, n - 1, text, start, word),
                                  cat.msyms[n].name, text, start, word),
         cat.msyms[n].name, text, start, word)

\* A scan step with n QUIT polls ahead of the names it offers: c is
\* [polls, quit, out]; offered is the list out grows to.
Polled(c, n, cancel, offered) ==
  IF c.quit THEN c
  ELSE IF cancel > c.polls /\ cancel <= c.polls + n
  THEN [c EXCEPT !.quit = TRUE, !.polls = cancel]
  ELSE [c EXCEPT !.polls = @ + n, !.out = offered]

\* A variant that reads in each partial symtab it scans.
RECURSIVE ComplPsymtabs_expanding(_, _, _, _, _, _, _)
ComplPsymtabs_expanding(s, c, p, text, start, word, cancel) ==
  IF p > Len(cat.pst) \/ c.quit THEN c
  ELSE IF c.st.readin[p]
  THEN ComplPsymtabs_expanding(s, c, p + 1, text, start, word, cancel)
  ELSE With(cat.pst[p].globals \o cat.pst[p].statics,
         LAMBDA list :
           ComplPsymtabs_expanding(
             s, [Polled(c, Len(list), cancel,
                        AddNames(c.out, list, Len(list), text, start, word))
                   EXCEPT !.st = PSYMTAB_TO_SYMTAB(c.st, p).st],
             p + 1, text, start, word, cancel))

RECURSIVE ComplPsymtabs(_, _, _, _, _, _, _)
ComplPsymtabs(s, c, p, text, start, word, cancel) ==
  IF p > Len(cat.pst) \/ c.quit THEN c
  ELSE IF s.readin[p] THEN ComplPsymtabs(s, c, p + 1, text, start, word, cancel)
  ELSE With(cat.pst[p].globals \o cat.pst[p].statics,
         LAMBDA list :
           ComplPsymtabs(s, Polled(c, Len(list), cancel,
                                   AddNames(c.out, list, Len(list), text, start, word)),
                         p + 1, text, start, word, cancel))

RECURSIVE ComplBlocksUp(_, _, _, _, _, _)
ComplBlocksUp(c, b, text, start, word, cancel) ==
  IF b = NoBlock \/ c.quit THEN c
  ELSE ComplBlocksUp(Polled(c, Len(BLOCK_DICT(b)), cancel,
                            AddBlockSyms(c.out, BLOCK_DICT(b), Len(BLOCK_DICT(b)),
                                         text, start, word)),
                     BLOCK_SUPERBLOCK(b), text, start, word, cancel)

\* surrounding_static_block as the walk from the selected block leaves it:
\* the block of the walk that has no superblock.
RECURSIVE SurroundingStaticBlock(_)
SurroundingStaticBlock(b) ==
  IF b = NoBlock THEN NoBlock
  ELSE IF BLOCK_SUPERBLOCK(b) = NoBlock THEN b
  ELSE SurroundingStaticBlock(BLOCK_SUPERBLOCK(b))

RECURSIVE ComplSymtabs(_, _, _, _, _, _, _, _)
ComplSymtabs(c, list, block_index, skip, text, start, word, cancel) ==
  IF list = <<>> \/ c.quit THEN c
  ELSE With(BLOCKVECTOR_BLOCK(BLOCKVECTOR(Head(list)), block_index),
         LAMBDA b :
           ComplSymtabs(Polled(c, 1, cancel,
                               IF b = skip THEN c.out
                               ELSE AddNames(c.out, BLOCK_DICT(b), Len(BLOCK_DICT(b)),
                                             text, start, word)),
                        Tail(list), block_index, skip, text, start, word, cancel))

\* default_make_symbol_completion_list (text, word) with the selected block
\* sel, cancelled at QUIT poll number cancel (0: never): [st, polls, quit,
\* out], st the catalog state the call leaves.
default_make_symbol_completion_list(s, text, word, sel, cancel) ==
  With(SymTextStart(text),
    LAMBDA start :
      IF start = -1 THEN [st |-> s, polls |-> 0, quit |-> FALSE, out |-> <<>>]
      ELSE With(ComplPsymtabs(s, [st |-> s, polls |-> 0, quit |-> FALSE, out |-> <<>>], 1,
                              text, start, word, cancel),
        LAMBDA c1 :
          With(Polled(c1, Len(cat.msyms), cancel,
                      AddMsyms(c1.out, Len(cat.msyms), text, start, word)),
            LAMBDA c2 :
              ComplSymtabs(
                ComplSymtabs(ComplBlocksUp(c2, sel, text, start, word, cancel),
                             PrimaryOnly(s.symtabs), GLOBAL_BLOCK, NoBlock,
                             text, start, word, cancel),
                PrimaryOnly(s.symtabs), STATIC_BLOCK, SurroundingStaticBlock(sel),
                text, start, word, cancel))))

-----------------------------------------------------------------------------
(* Expanding a file-and-line location to all its addresses.                *)

RECURSIVE BlockDepth(_)
BlockDepth(b) == IF BLOCK_SUPERBLOCK(b) = NoBlock THEN 0 ELSE 1 + BlockDepth(BLOCK_SUPERBLOCK(b))

\* block_for_pc (pc): the innermost block of the symtab of pc that holds pc.
InnermostBlock(u, pc) ==
  With({n \in DOMAIN Unit(u).blocks :
          BLOCK_START(<<u, n>>) <= pc /\ pc < BLOCK_END(<<u, n>>)},
       LAMBDA C :
         IF C = {} THEN NoBlock
         ELSE <<u, CHOOSE n \in C : \A m \in C : BlockDepth(<<u, m>>) <= BlockDepth(<<u, n>>)>>)

block_for_pc(s, pc) ==
  With(find_pc_sect_symtab(s, pc, 0),
       LAMBDA r : [st |-> r.st,
                   val |-> IF r.val = NoSymtab THEN NoBlock
                           ELSE InnermostBlock(r.val[1], pc)])

\* The pass over one line table: a is [exact, has_best, best_line, best_pc,
\* best_symtab, sals].
RECURSIVE SalItems(_, _, _, _, _)
SalItems(l, j, symtab, lineno, a) ==
  IF j > Len(l) THEN a
  ELSE SalItems(l, j + 1, symtab, lineno,
         IF l[j].line = lineno
         THEN [a EXCEPT !.exact = TRUE,
                        !.sals = Append(@, Sal(symtab, lineno, l[j].pc, 0, 0))]
         ELSE IF ~a.exact /\ l[j].line > lineno /\ (~a.has_best \/ l[j].line < a.best_line)
         THEN [a EXCEPT !.has_best = TRUE, !.best_line = l[j].line,
                        !.best_pc = l[j].pc, !.best_symtab = symtab]
         ELSE a)

RECURSIVE SalSymtabs(_, _, _, _)
SalSymtabs(list, filename, lineno, a) ==
  IF list = <<>> THEN a
  ELSE SalSymtabs(Tail(list), filename, lineno,
                  IF Filename(Head(list)) = filename
                  THEN SalItems(LINETABLE(Head(list)), 1, Head(list), lineno, a)
                  ELSE a)

\* blocks[i] = block_for_pc (ret.sals[i].pc) for i = 1..n, threading the
\* catalog: [st, blocks].
RECURSIVE SalBlocks(_, _, _)
SalBlocks(s, sals, n) ==
  IF n = 0 THEN [st |-> s, blocks |-> <<>>]
  ELSE With(SalBlocks(s, sals, n - 1),
         LAMBDA r :
           With(block_for_pc(r.st, sals[n].pc),
             LAMBDA b : [st |-> b.st, blocks |-> Append(r.blocks, b.val)]))

\* filter[j] = 0: sal j is the first later sal in the block of an earlier one.
Filtered(blocks, j) ==
  \E i \in 1..(j - 1) :
     /\ blocks[i] # NoBlock
     /\ blocks[j] = blocks[i]
     /\ \A k \in (i + 1)..(j - 1) : blocks[k] # blocks[i]

\* A variant that counts every later sal in the block of an earlier one, as
\* the loop would without its break.
Deleted_nobreak(blocks) ==
  Cardinality({p \in (1..Len(blocks)) \X (1..Len(blocks)) :
                 /\ p[1] < p[2]
                 /\ blocks[p[1]] # NoBlock
                 /\ blocks[p[2]] = blocks[p[1]]})

\* deleted: one for each sal with a block that finds a later sal in the
\* same block.
Deleted(blocks) ==
  Cardinality({i \in 1..Len(blocks) :
                 /\ blocks[i] # NoBlock
                 /\ \E j \in (i + 1)..Len(blocks) : blocks[j] = blocks[i]})

RECURSIVE KeepUnfiltered(_, _, _)
KeepUnfiltered(sals, blocks, i) ==
  IF i > Len(sals) THEN <<>>
  ELSE (IF Filtered(blocks, i) THEN <<>> ELSE <<sals[i]>>)
       \o KeepUnfiltered(sals, blocks, i + 1)

\* expand_line_sal (sal): [st, val, nelts] with val the locations copied to
\* the result and nelts the count returned with them.
expand_line_sal(s, sal) ==
  IF sal.symtab = NoSymtab \/ sal.line = 0 \/ sal.pc # 0
  THEN [st |-> s, val |-> <<sal>>, nelts |-> 1]
  ELSE With(ReadInByFilename(s, 1, Filename(sal.symtab)),
    LAMBDA s1 :
      With(SalSymtabs(s1.symtabs, Filename(sal.symtab), sal.line,
                      [exact |-> FALSE, has_best |-> FALSE, best_line |-> 0,
                       best_pc |-> 0, best_symtab |-> NoSymtab, sals |-> <<>>]),
        LAMBDA a :
          With(IF ~a.exact /\ a.has_best
               THEN Append(a.sals, Sal(a.best_symtab, sal.line, a.best_pc, 0, 0))
               ELSE a.sals,
            LAMBDA ret :
              With(SalBlocks(s1, ret, Len(ret)),
                LAMBDA r : [st |-> r.st, val |-> KeepUnfiltered(ret, r.blocks, 1),
                            nelts |-> Len(ret) - Deleted(r.blocks)]))))

-----------------------------------------------------------------------------
(* The object files the operations are run on.                             *)

IntType == [code |-> "TYPE_CODE_INT", target |-> "", fields |-> <<>>]
StructType(fields) == [code |-> "TYPE_CODE_STRUCT", target |-> "", fields |-> fields]

\* A symbol as the reader records it: the demangled name is set for the
\* languages that mangle.
MkSym(name, domain, class, language, addr, is_arg, type) ==
  [name |-> name,
   demangled |-> IF language \in {"language_cplus", "language_java"}
                 THEN cplus_demangle(name) ELSE NoName,
   domain |-> domain, class |-> class, language |-> language,
   addr |-> addr, sect |-> 1, is_arg |-> is_arg, type |-> type, symtab |-> 1]

Var(name) == MkSym(name, "VAR_DOMAIN", "LOC_STATIC", "language_c", 0, FALSE, IntType)
Func(name, addr) == MkSym(name, "VAR_DOMAIN", "LOC_BLOCK", "language_c", addr, FALSE, IntType)
Arg(name) == MkSym(name, "VAR_DOMAIN", "LOC_ARG", "language_c", 0, TRUE, IntType)
\* The receiver of a member function: a pointer to a struct with those fields.
This(language, fields) ==
  MkSym(la_name_of_this(language), "VAR_DOMAIN", "LOC_ARG", "language_c", 0, TRUE,
        [code |-> "TYPE_CODE_PTR", target |-> "TYPE_CODE_STRUCT", fields |-> fields])
Typedef(name, fields) ==
  MkSym(name, "STRUCT_DOMAIN", "LOC_TYPEDEF", "language_c", 0, FALSE, StructType(fields))

\* The order the reader leaves the global partial symbols in
\* (sort_pst_symbols).
RECURSIVE InsertPsym(_, _)
InsertPsym(sorted, y) ==
  IF sorted = <<>> THEN <<y>>
  ELSE IF strcmp_iw_ordered(symbol_search_name(y), symbol_search_name(Head(sorted))) < 0
       THEN <<y>> \o sorted
       ELSE <<Head(sorted)>> \o InsertPsym(Tail(sorted), y)

RECURSIVE SortPsyms(_)
SortPsyms(list) ==
  IF list = <<>> THEN <<>>
  ELSE InsertPsym(SortPsyms(SubSeq(list, 1, Len(list) - 1)), list[Len(list)])

Entry(line, pc) == [line |-> line, pc |-> pc]
Block(super, func, dict, start, end_) ==
  [super |-> super, func |-> func, dict |-> dict, start |-> start, end_ |-> end_]

\* A two-file program.  File a defines function f (with argument b, a
\* local, and an inner block declaring e and a struct type ta with field
\* la), the global g and the static a; file b defines function h with
\* local l and a global.  local is the name of f's local, glob that of b's
\* global.  A third minimal symbol p has no debug information.  With fields
\* given, f is a member function of a struct with these fields.
TwoFiles(local, glob, case_off, language, fields) ==
  [pst |-> <<[filename |-> <<"a">>, textlow |-> 0, texthigh |-> 2,
              globals |-> <<Func(<<"f">>, 0), Var(<<"g">>)>>,
              statics |-> <<Var(<<"a">>)>>, unit |-> 1],
             [filename |-> <<"b">>, textlow |-> 2, texthigh |-> 4,
              globals |-> SortPsyms(<<Func(<<"h">>, 2), Var(glob)>>),
              statics |-> <<>>, unit |-> 2]>>,
   unit |-> <<[symtabs |-> <<[filename |-> <<"a">>, primary |-> TRUE,
                              linetable |-> <<Entry(1, 0), Entry(2, 1), Entry(0, 2)>>]>>,
               blocks |-> [n \in {"G", "S", "F", "L"} |->
                 CASE n = "G" -> Block("", FALSE, <<Func(<<"f">>, 0), Var(<<"g">>)>>, 0, 2)
                   [] n = "S" -> Block("G", FALSE, <<Var(<<"a">>)>>, 0, 2)
                   [] n = "F" -> Block("S", TRUE,
                                       <<Arg(<<"b">>), Var(local)>>
                                         \o (IF fields = <<>> THEN <<>>
                                             ELSE <<This(language, fields)>>),
                                       0, 2)
                   [] n = "L" -> Block("F", FALSE,
                                       <<Var(<<"e">>), Typedef(<<"t", "a">>, <<<<"l", "a">>>>)>>,
                                       1, 2)]],
              [symtabs |-> <<[filename |-> <<"b">>, primary |-> TRUE,
                              linetable |-> <<Entry(1, 2), Entry(0, 4)>>]>>,
               blocks |-> [n \in {"G", "S", "H"} |->
                 CASE n = "G" -> Block("", FALSE, <<Func(<<"h">>, 2), Var(glob)>>, 2, 4)
                   [] n = "S" -> Block("G", FALSE, <<>>, 2, 4)
                   [] n = "H" -> Block("S", TRUE, <<Var(<<"l">>)>>, 2, 4)]]>>,
   msyms |-> <<[name |-> <<"f">>, addr |-> 0, type |-> "mst_text", sect |-> 1],
               [name |-> <<"h">>, addr |-> 2, type |-> "mst_text", sect |-> 1],
               [name |-> <<"p">>, addr |-> 3, type |-> "mst_text", sect |-> 1]>>,
   reordered |-> FALSE, addrmap |-> <<>>, overlay_debugging |-> FALSE,
   case_off |-> case_off, language |-> language]

\* The catalog right after the object file is opened: nothing read in.
Fresh(c) ==
  /\ cat = c
  /\ readin = [p \in 1..Len(c.pst) |-> FALSE]
  /\ pst_symtab = [p \in 1..Len(c.pst) |-> 0]
  /\ symtabs = <<>>
  /\ reads = [p \in 1..Len(c.pst) |-> 0]
  /\ block_found = NoBlock
  /\ demangled_names_hash = [k \in {} |-> NoName]
  /\ name_log = [k \in {} |-> <<>>]
  /\ res = [op |-> "none", args |-> <<>>, val |-> <<>>, err |-> ""]

\* The catalog state an operation leaves, with the record of the operation.
\* Nothing runs after a call that trapped.
Commit(s, op, args, val, err) ==
  /\ res.err # "segv"
  /\ readin' = s.readin
  /\ pst_symtab' = s.pst_symtab
  /\ symtabs' = s.symtabs
  /\ reads' = s.reads
  /\ block_found' = s.block_found
  /\ res' = [op |-> op, args |-> args, val |-> val, err |-> err]
  /\ UNCHANGED <<cat, demangled_names_hash, name_log>>

\* The blocks a caller can hold: those of the symtabs read in so far.
LiveBlocks == {<<symtabs[i][1], n>> : i \in 1..Len(symtabs), n \in {"G", "S", "F", "L", "H"}}
              \cap {<<u, n>> \in (1..Len(cat.unit)) \X {"G", "S", "F", "L", "H"} :
                      n \in DOMAIN cat.unit[u].blocks}
Contexts == {NoBlock} \cup LiveBlocks
LiveSymtabs == {symtabs[i] : i \in 1..Len(symtabs)}

-----------------------------------------------------------------------------
(* The operations, one action per entry point.                             *)

\* Every symbol of every block of the object file.
AllSymbols ==
  UNION {UNION {{<<u, n, i>> : i \in 1..Len(cat.unit[u].blocks[n].dict)} :
                  n \in DOMAIN cat.unit[u].blocks} :
           u \in 1..Len(cat.unit)}

\* What a call that yielded r can do.  A call that ended with "segv" has
\* read the block vector of a null symtab, which is undefined: it traps, or
\* it goes on with whatever it read ("garbage") and returns any symbol or
\* none.  Every other call does what r says.
Outcomes(r) ==
  IF r.err # "segv" THEN {r}
  ELSE {r} \cup {[r EXCEPT !.err = "garbage", !.val = y] : y \in AllSymbols \cup {NoSym}}

\* Largest number of the QUIT poll at which a scan is cancelled.
MaxCancel == 2

Domains == {"VAR_DOMAIN", "STRUCT_DOMAIN"}
Kinds == {"VARIABLES_DOMAIN", "FUNCTIONS_DOMAIN", "TYPES_DOMAIN"}

\* psymtab_to_symtab (pst), the conversion on its own.
Convert ==
  \E p \in Psts :
     LET r == PSYMTAB_TO_SYMTAB(St, p)
     IN Commit(r.st, "PSYMTAB_TO_SYMTAB", [p |-> p, readin |-> readin[p]], r.val, "")

\* lookup_symbol (name, block, domain, is_a_field_of_this) in the current
\* language.
LookupIn(names, domains, want) ==
  \E name \in names, block \in Contexts, domain \in domains, want_field \in want :
     LET r == lookup_symbol_in_language(St, name, block, domain, cat.language, want_field)
     IN \E o \in Outcomes(r) :
          Commit(o.st, "lookup_symbol",
                 [name |-> name, block |-> block, domain |-> domain,
                  language |-> cat.language, want_field |-> want_field],
                 [sym |-> o.val, field |-> o.field], o.err)

\* find_pc_sect_psymtab (pc, section); it reads nothing in.
FindPcPsymtabIn(pcs, sections) ==
  \E pc \in pcs, section \in sections :
     Commit(St, "find_pc_sect_psymtab", [pc |-> pc, section |-> section],
            find_pc_sect_psymtab(pc, section), "")

FindPcSymtabIn(pcs, sections) ==
  \E pc \in pcs, section \in sections :
     LET r == find_pc_sect_symtab(St, pc, section)
     IN Commit(r.st, "find_pc_sect_symtab", [pc |-> pc, section |-> section], r.val, "")

FindPcSymtab == FindPcSymtabIn(0..MaxPc, {0})

FindPcLine ==
  \E pc \in 0..MaxPc, notcurrent \in BOOLEAN :
     LET r == find_pc_sect_line(St, pc, 0, notcurrent)
     IN Commit(r.st, "find_pc_sect_line", [pc |-> pc, notcurrent |-> notcurrent],
               r.val, "")

FindLineSymtab ==
  \E symtab \in LiveSymtabs, line \in 0..MaxLine :
     LET r == find_line_symtab(St, symtab, line)
     IN Commit(r.st, "find_line_symtab", [symtab |-> symtab, line |-> line],
               [symtab |-> r.val, index |-> r.index, exact |-> r.exact], "")

FindLinePc ==
  \E symtab \in LiveSymtabs \cup {NoSymtab}, line \in 0..MaxLine :
     LET r == IF symtab = NoSymtab THEN [st |-> St, ok |-> FALSE, pc |-> 0]
              ELSE find_line_pc(St, symtab, line)
     IN Commit(r.st, "find_line_pc", [symtab |-> symtab, line |-> line],
               [ok |-> r.ok, pc |-> r.pc], "")

ExpandLineSal ==
  \E symtab \in LiveSymtabs, line \in 1..MaxLine :
     LET r == expand_line_sal(St, Sal(symtab, line, 0, 0, 0))
     IN Commit(r.st, "expand_line_sal",
               [symtab |-> symtab, line |-> line, nelts |-> r.nelts], r.val, "")

SearchSymbolsIn(regexps, kinds, filesets) ==
  \E regexp \in regexps, kind \in kinds, files \in filesets, cancel \in 0..MaxCancel :
     LET a == search_symbols(St, regexp, kind, files, cancel)
     IN \E e \in IF a.err = "segv" THEN {"segv", "garbage"}
                 ELSE {IF a.quit THEN "quit" ELSE a.err} :
          Commit(a.st, "search_symbols",
                 [regexp |-> regexp, kind |-> kind, files |-> files, cancel |-> cancel],
                 a.out, e)

\* default_make_symbol_completion_list (text, word): word is where the word
\* being completed starts in text, shift characters after the start of the
\* symbol text (at the start of text when it ends inside a double-quoted
\* string).
CompleteIn(texts, shifts, cancels) ==
  \E text \in texts, sel \in Contexts, cancel \in cancels :
     \E word \in {IF SymTextStart(text) < 0 THEN 0 ELSE SymTextStart(text) + d :
                     d \in shifts} \cap (0..Len(text)) :
        LET c == default_make_symbol_completion_list(St, text, word, sel, cancel)
        IN Commit(c.st, "default_make_symbol_completion_list",
                  [text |-> text, word |-> word, sel |-> sel, cancel |-> cancel],
                  c.out, IF c.quit THEN "quit" ELSE "")

-----------------------------------------------------------------------------
(* The catalog under all operations.                                       *)

Init == Fresh(TwoFiles(<<"z">>, <<"z">>, FALSE, "language_c", <<>>))

Lookup == LookupIn({<<"z">>, <<"g">>}, Domains, {FALSE})
SearchSymbols ==
  SearchSymbolsIn({NoName, <<"g">>}, {"VARIABLES_DOMAIN", "FUNCTIONS_DOMAIN"},
                  {<<>>, <<<<"a">>>>})
Complete == CompleteIn({<<"g">>}, {0}, 0..MaxCancel)

Next ==
  \/ Convert
  \/ Lookup
  \/ FindPcSymtab
  \/ FindPcLine
  \/ FindLineSymtab
  \/ FindLinePc
  \/ ExpandLineSal
  \/ SearchSymbols
  \/ Complete

Spec == Init /\ [][Next]_vars

-----------------------------------------------------------------------------
(* Properties of the partial symtab -> symtab conversion.                  *)

\* The table the first conversion of partial symtab p yields.
FirstTable(p) == IF cat.pst[p].unit = 0 THEN NoSymtab ELSE <<cat.pst[p].unit, 1>>

\* C1: expanding a partial symtab is idempotent.  The reader is invoked at
\* most once per partial symtab, and a conversion requested for a partial
\* symtab that is already read in returns the table the first conversion
\* produced and leaves the catalog as it is.
C1_ExpansionIdempotent ==
  /\ \A p \in Psts : reads[p] <= 1
  /\ \A p \in Psts :
       readin[p] => /\ PSYMTAB_TO_SYMTAB(St, p).val = FirstTable(p)
                    /\ PSYMTAB_TO_SYMTAB(St, p).st = St
  /\ (res.op = "PSYMTAB_TO_SYMTAB" => res.val = FirstTable(res.args.p))

\* A conversion was requested for a partial symtab that was already read in.
C1_Witness ==
  /\ res.op = "PSYMTAB_TO_SYMTAB"
  /\ res.args.readin
  /\ res.val # NoSymtab
  /\ reads[res.args.p] = 1

\* Partial symtab p is fully expanded: flagged, linked to its table, and
\* every symtab of its unit is in the catalog list exactly once.
Expanded(p) ==
  /\ readin[p]
  /\ pst_symtab[p] = cat.pst[p].unit
  /\ \A k \in 1..Len(UnitSymtabs(cat.pst[p].unit)) :
        Cardinality({i \in 1..Len(symtabs) : symtabs[i] = <<cat.pst[p].unit, k>>}) = 1

\* Partial symtab p is untouched: not flagged, no table, nothing of its
\* unit in the catalog list.
Unexpanded(p) ==
  /\ ~readin[p]
  /\ pst_symtab[p] = 0
  /\ \A i \in 1..Len(symtabs) : symtabs[i][1] # cat.pst[p].unit

\* C2: after any sequence of operations, cancelled scans included, every
\* partial symtab is either unexpanded or fully expanded, and one that is
\* expanded stays expanded.
C2_ExpansionAtomicAndIrreversible ==
  /\ [](\A p \in Psts : Expanded(p) \/ Unexpanded(p))
  /\ [][\A p \in Psts : readin[p] => readin'[p]]_vars

\* A search was cancelled at a poll point after it had expanded one partial
\* symtab and before it reached the next.
C2_Witness ==
  /\ res.op = "search_symbols"
  /\ res.err = "quit"
  /\ res.args.cancel = 2
  /\ res.args.kind = "FUNCTIONS_DOMAIN"
  /\ symtabs = <<<<1, 1>>>>
  /\ Expanded(1) /\ Unexpanded(2)

-----------------------------------------------------------------------------
(* Line tables: a program whose units share a header.                      *)

\* Two units, a.c at [0,2) and b.c at [2,4), each with a second symtab for
\* the header h they both include.  lt is the line table of a.c, lh that of
\* the header as seen from a.c; second is the file name of the second unit
\* (a.c again when the compiler split that file in two).  With tramp set,
\* address 1 is the import stub of function t, whose code is at address 3.
LineFiles(lt, lh, second, tramp) ==
  [pst |-> <<[filename |-> <<"a">>, textlow |-> 0, texthigh |-> 2,
              globals |-> <<Func(<<"f">>, 0)>>, statics |-> <<>>, unit |-> 1],
             [filename |-> second, textlow |-> 2, texthigh |-> 4,
              globals |-> <<Func(<<"h">>, 2)>>, statics |-> <<>>, unit |-> 2]>>,
   unit |-> <<[symtabs |-> <<[filename |-> <<"a">>, primary |-> TRUE, linetable |-> lt],
                             [filename |-> <<"h">>, primary |-> FALSE, linetable |-> lh]>>,
               blocks |-> [n \in {"G", "S", "F"} |->
                 CASE n = "G" -> Block("", FALSE, <<Func(<<"f">>, 0)>>, 0, 2)
                   [] n = "S" -> Block("G", FALSE, <<>>, 0, 2)
                   [] n = "F" -> Block("S", TRUE, <<>>, 0, 2)]],
              [symtabs |-> <<[filename |-> second, primary |-> TRUE,
                              linetable |-> <<Entry(1, 2), Entry(0, 4)>>],
                             [filename |-> <<"h">>, primary |-> FALSE,
                              linetable |-> <<Entry(1, 3)>>]>>,
               blocks |-> [n \in {"G", "S", "H"} |->
                 CASE n = "G" -> Block("", FALSE, <<Func(<<"h">>, 2)>>, 2, 4)
                   [] n = "S" -> Block("G", FALSE, <<>>, 2, 4)
                   [] n = "H" -> Block("S", TRUE, <<>>, 2, 4)]]>>,
   msyms |-> IF tramp
             THEN <<[name |-> <<"f">>, addr |-> 0, type |-> "mst_text", sect |-> 1],
                    [name |-> <<"t">>, addr |-> 1, type |-> "mst_solib_trampoline", sect |-> 1],
                    [name |-> <<"h">>, addr |-> 2, type |-> "mst_text", sect |-> 1],
                    [name |-> <<"t">>, addr |-> 3, type |-> "mst_text", sect |-> 1]>>
             ELSE <<[name |-> <<"f">>, addr |-> 0, type |-> "mst_text", sect |-> 1],
                    [name |-> <<"h">>, addr |-> 2, type |-> "mst_text", sect |-> 1]>>,
   reordered |-> FALSE, addrmap |-> <<>>, overlay_debugging |-> FALSE,
   case_off |-> FALSE, language |-> "language_c"]

\* The line tables of a.c tried: one entry per line; two lines at one
\* address; lines out of order and no end marker; code before the first line.
LineTables ==
  {<<Entry(1, 0), Entry(2, 1), Entry(0, 2)>>,
   <<Entry(1, 0), Entry(2, 0), Entry(0, 2)>>,
   <<Entry(2, 0), Entry(1, 1)>>,
   <<Entry(2, 1), Entry(0, 2)>>}

HeaderTables == {<<>>, <<Entry(3, 0), Entry(2, 1)>>}

InitLine ==
  \E lt \in LineTables, lh \in HeaderTables, second \in {<<"a">>, <<"b">>},
     tramp \in BOOLEAN :
        Fresh(LineFiles(lt, lh, second, tramp))

NextLine ==
  \/ Convert
  \/ FindPcSymtab
  \/ FindPcLine
  \/ FindLineSymtab
  \/ FindLinePc
  \/ ExpandLineSal

SpecLine == InitLine /\ [][NextLine]_vars

-----------------------------------------------------------------------------
(* Properties of the address <-> line lookups.                             *)

\* Address a lies in the range of a full table that has been read in.
InTableRange(a) ==
  \E t \in LiveSymtabs :
     /\ BLOCK_START(BLOCKVECTOR_BLOCK(BLOCKVECTOR(t), GLOBAL_BLOCK)) <= a
     /\ a < BLOCK_END(BLOCKVECTOR_BLOCK(BLOCKVECTOR(t), GLOBAL_BLOCK))

Sections == {0, 1}

\* sal either carries no line or a range that contains address a.
NoLineOrContains(sal, a) == sal.line = 0 \/ (sal.pc <= a /\ a < sal.end_)

\* The claim as written: for every address a inside the range of a full
\* table, find_pc_sect_line (a, section, 0) returns line 0 or a range
\* pc <= a < end.
C3_RangeContainsAddress ==
  \A a \in 0..MaxPc, section \in Sections :
     InTableRange(a) => NoLineOrContains(find_pc_sect_line(St, a, section, FALSE).val, a)

\* The real code of the solib trampoline a lies in: the address the lookup
\* is redirected to, or a itself when a is not in such a stub.
RealPc(a) ==
  LET msym == lookup_minimal_symbol_by_pc_section(a, 0)
      mfun == IF msym # 0 /\ cat.msyms[msym].type = "mst_solib_trampoline"
              THEN lookup_minimal_symbol_text(cat.msyms[msym].name) ELSE 0
  IN IF mfun # 0 THEN cat.msyms[mfun].addr ELSE a

\* C3: for every address a inside the range of a full table,
\* find_pc_sect_line (a, section, 0) returns line 0 or a range pc <= a < end,
\* unless a lies in a solib trampoline whose real function is known: then
\* the result is the one for the start f of the real function, with line 0
\* or pc <= f < end.
C3_RangeContainsAddressOrRealCode ==
  /\ \A a \in 0..MaxPc, section \in Sections :
        InTableRange(a) =>
          IF RealPc(a) = a
          THEN NoLineOrContains(find_pc_sect_line(St, a, section, FALSE).val, a)
          ELSE /\ find_pc_sect_line(St, a, section, FALSE)
                    = find_pc_sect_line(St, RealPc(a), 0, FALSE)
               /\ NoLineOrContains(find_pc_sect_line(St, a, section, FALSE).val, RealPc(a))
  /\ (res.op = "find_pc_sect_line" /\ ~res.args.notcurrent /\ InTableRange(res.args.pc)
        => NoLineOrContains(res.val, RealPc(res.args.pc)))

\* A lookup of an address in a table's range came back with a line and a
\* range around the address.
C3_Witness ==
  /\ res.op = "find_pc_sect_line"
  /\ ~res.args.notcurrent
  /\ InTableRange(res.args.pc)
  /\ RealPc(res.args.pc) = res.args.pc
  /\ res.val.line > 0
  /\ res.val.pc < res.args.pc
  /\ res.args.pc < res.val.end_

\* Line-table entries of symtab t at line, and at lines above it.
ExactEntries(t, line) == {i \in 1..Len(LINETABLE(t)) : LINETABLE(t)[i].line = line}
LargerEntries(t, line) == {i \in 1..Len(LINETABLE(t)) : LINETABLE(t)[i].line > line}
SmallestLarger(t, line) ==
  {i \in LargerEntries(t, line) :
     \A j \in LargerEntries(t, line) : LINETABLE(t)[i].line <= LINETABLE(t)[j].line}

\* The lookup of line in t is exact and lands on an entry of t for that line.
ExactIn(t, line) ==
  LET r == find_line_symtab(St, t, line)
      q == find_line_pc(St, t, line)
  IN /\ r.exact
     /\ r.val = t
     /\ r.index \in ExactEntries(t, line)
     /\ q.ok
     /\ q.pc = LINETABLE(t)[r.index].pc

\* The lookup of line in t is inexact and lands on an entry of t with the
\* smallest line above it.
NearestIn(t, line) ==
  LET r == find_line_symtab(St, t, line)
      q == find_line_pc(St, t, line)
  IN /\ ~r.exact
     /\ r.val = t
     /\ r.index \in SmallestLarger(t, line)
     /\ q.ok
     /\ q.pc = LINETABLE(t)[r.index].pc

\* The claim as written: an exact entry of the given table gives an exact
\* result with that entry's address; failing that, larger lines in the given
\* table give an inexact result with the address of the smallest larger line.
C4_LineToAddressInGivenTable ==
  \A t \in LiveSymtabs, line \in 1..MaxLine :
     /\ ExactEntries(t, line) # {} => ExactIn(t, line)
     /\ (ExactEntries(t, line) = {} /\ LargerEntries(t, line) # {}) => NearestIn(t, line)

\* The symtabs with the file name of t once the partial symtabs of that
\* file name are read in.
SameFile(t) ==
  LET l == ReadInByFilename(St, 1, Filename(t)).symtabs
  IN {l[i] : i \in {j \in 1..Len(l) : Filename(l[j]) = Filename(t)}}

\* C4: find_line_symtab / find_line_pc on a table and a line > 0.  An exact
\* entry of the table gives an exact result with the address of that entry.
\* Without one, the tables of the same file name are searched too, partial
\* symtabs of that name being read in first: an exact entry in any of them
\* gives an exact result with that entry's address; otherwise the result is
\* inexact and is the address of an entry with the smallest larger line
\* number over all these tables, the given table's when it has that line.
C4_LineToAddressAcrossTables ==
  \A t \in LiveSymtabs, line \in 1..MaxLine :
     LET r == find_line_symtab(St, t, line)
         q == find_line_pc(St, t, line)
         X == {u \in SameFile(t) : ExactEntries(u, line) # {}}
         G == {u \in SameFile(t) : LargerEntries(u, line) # {}}
     IN /\ ExactEntries(t, line) # {} => ExactIn(t, line)
        /\ (ExactEntries(t, line) = {} /\ X # {}) =>
              /\ r.exact /\ r.val \in X /\ r.index \in ExactEntries(r.val, line)
              /\ q.ok /\ q.pc = LINETABLE(r.val)[r.index].pc
        /\ (X = {} /\ G # {}) =>
              /\ ~r.exact /\ r.val \in G /\ r.index \in SmallestLarger(r.val, line)
              /\ \A u \in G : \A j \in LargerEntries(u, line) :
                    LINETABLE(r.val)[r.index].line <= LINETABLE(u)[j].line
              /\ (\E j \in LargerEntries(t, line) :
                     LINETABLE(t)[j].line = LINETABLE(r.val)[r.index].line) => r.val = t
              /\ q.ok /\ q.pc = LINETABLE(r.val)[r.index].pc
        /\ (X = {} /\ G = {}) => r.val = NoSymtab /\ ~q.ok

\* With every unit read in, a line missing from all tables of the file was
\* found, inexactly, at the smallest larger line of the given table.
C4_Witness ==
  /\ res.op = "find_line_symtab"
  /\ res.args.line > 0
  /\ ExactEntries(res.args.symtab, res.args.line) = {}
  /\ ~res.val.exact
  /\ res.val.symtab = res.args.symtab
  /\ res.val.index \in SmallestLarger(res.args.symtab, res.args.line)
  /\ Len(symtabs) = 4

OtherLineAt(t, line, p) ==
  \E k \in 1..Len(Unit(t[1]).symtabs) :
     \E i \in 1..Len(LINETABLE(<<t[1], k>>)) :
        /\ LINETABLE(<<t[1], k>>)[i].pc = p
        /\ LINETABLE(<<t[1], k>>)[i].line # line

-----------------------------------------------------------------------------
(* Name lookup: scoping, shadowing and letter case.                        *)

\* The programs looked into: f's local z shadows the global z of b.c; f and
\* its inner block both declare e, as does b.c; a C++ program, case
\* sensitivity off, whose member function f has a local z and receiver
\* fields z and zf, next to a global zf.
LookupCatalogs ==
  {TwoFiles(<<"z">>, <<"z">>, FALSE, "language_c", <<>>),
   TwoFiles(<<"e">>, <<"e">>, FALSE, "language_c", <<>>),
   TwoFiles(<<"z">>, <<"z", "f">>, TRUE, "language_cplus", <<<<"z">>, <<"z", "f">>>>)}

QueryNames == {<<"z">>, <<"Z">>, <<"e">>, <<"z", "f">>, <<"Z", "f">>}

InitLookup == \E c \in LookupCatalogs : Fresh(c)

\* is_a_field_of_this is passed where the language has a receiver.
LookupAny ==
  LookupIn(QueryNames, {"VAR_DOMAIN"},
           IF la_name_of_this(cat.language) = NoName THEN {FALSE} ELSE BOOLEAN)

NextLookup ==
  \/ Convert
  \/ LookupAny

SpecLookup == InitLookup /\ [][NextLookup]_vars

\* Every block of the program, read in or not.
AllBlocks == {<<u, n>> \in (1..Len(cat.unit)) \X {"G", "S", "F", "L", "H"} :
                n \in DOMAIN cat.unit[u].blocks}

\* The names asked for in the properties below.
AllNames == QueryNames \cup {<<"b">>, <<"l">>, <<"g">>, <<"t", "a">>, <<"E">>}

\* Block b is the block of function fb or nested in it.
Inside(b, fb) == b # NoBlock /\ FunctionBlockUp(b) = fb

\* The blocks that declare name.
Declaring(name) ==
  {b \in AllBlocks : \E i \in 1..Len(BLOCK_DICT(b)) : BLOCK_DICT(b)[i].name = name}

\* C6: a name whose only declaration is in the block of a function F or in a
\* block nested in F is not returned by lookup_symbol from a context block
\* that is neither F's block nor nested in it, in every catalog state; more
\* generally a lookup never returns a symbol of a function's blocks to a
\* context outside that function.
C6_LocalsInvisibleOutside ==
  \A name \in AllNames, block \in Contexts, domain \in Domains, want \in BOOLEAN :
     LET r == lookup_symbol_in_language(St, name, block, domain, cat.language, want)
     IN /\ r.val # NoSym /\ FunctionBlockUp(<<r.val[1], r.val[2]>>) # NoBlock
             => Inside(block, FunctionBlockUp(<<r.val[1], r.val[2]>>))
        /\ \A fb \in {b \in AllBlocks : BLOCK_FUNCTION(b)} :
              ( /\ Declaring(name) # {}
                /\ \A b \in Declaring(name) : Inside(b, fb)
                /\ ~Inside(block, fb) )
              => r.val = NoSym

\* With both units read in, e, declared only in the inner block of f, was
\* looked up from the block of h and not found.
C6_Witness ==
  /\ res.op = "lookup_symbol"
  /\ res.args.name = <<"e">>
  /\ Declaring(<<"e">>) = {<<1, "L">>}
  /\ res.args.block = <<2, "H">>
  /\ res.args.domain = "VAR_DOMAIN"
  /\ res.val.sym = NoSym
  /\ res.err = ""
  /\ Len(symtabs) = 2

\* The blocks the local pass visits from block b: b and its superblocks up
\* to, not including, the static block.
RECURSIVE Enclosing(_)
Enclosing(b) ==
  IF b = NoBlock \/ b[2] \in {GLOBAL_BLOCK, STATIC_BLOCK} THEN <<>>
  ELSE <<b>> \o Enclosing(BLOCK_SUPERBLOCK(b))

\* The positions in the dictionary of block b of the symbols called name
\* in that domain.
DeclaredAt(b, name, domain) ==
  {i \in 1..Len(BLOCK_DICT(b)) :
     BLOCK_DICT(b)[i].name = name /\ BLOCK_DICT(b)[i].domain = domain}

\* name is declared in the static or global block of some file.
FileLevel(name, domain) ==
  \E b \in AllBlocks :
     b[2] \in {GLOBAL_BLOCK, STATIC_BLOCK} /\ DeclaredAt(b, name, domain) # {}

\* The query spells the name as lookup_symbol_in_language compares it.
Comparable(name) ==
  /\ cat.case_off => LowerName(name) = name
  /\ cat.language \in {"language_cplus", "language_java"} => cplus_demangle(name) = NoName

\* C7: shadowing.  A name declared in the block of function F, whether or
\* not it is also declared in some file's static or global block or is a
\* field of the receiver, looked up from a context block inside F yields
\* the first match of the walk from the context block outward: F's symbol,
\* or that of a block nested in F around the context that declares the name
\* again.  The lookup stops at that match, before the receiver-field check,
\* the non-local hook and every static or global scan: it reports no field,
\* reads in no partial symtab and sets block_found to the block of the match.
C7_InnermostDeclarationWins ==
  \A name \in AllNames, block \in Contexts, domain \in Domains, want \in BOOLEAN :
     LET W == Enclosing(block)
         D == {k \in 1..Len(W) : DeclaredAt(W[k], name, domain) # {}}
         r == lookup_symbol_in_language(St, name, block, domain, cat.language, want)
     IN (D # {} /\ Comparable(name)) =>
           /\ r.val # NoSym
           /\ <<r.val[1], r.val[2]>> = W[First(D)]
           /\ r.val[3] \in DeclaredAt(W[First(D)], name, domain)
           /\ ~r.field
           /\ r.err = ""
           /\ r.st = [St EXCEPT !.block_found = W[First(D)]]

\* z, local to f and global in b.c, was looked up from the inner block of f
\* before b.c was read in: f's z came back and b.c is still not read in.
C7_Witness ==
  /\ res.op = "lookup_symbol"
  /\ res.args.name = <<"z">>
  /\ res.args.block = <<1, "L">>
  /\ res.args.domain = "VAR_DOMAIN"
  /\ DeclaredAt(<<2, "G">>, <<"z">>, "VAR_DOMAIN") # {}
  /\ res.val.sym = <<1, "F", 2>>
  /\ ~readin[2]

\* C9: with case sensitivity switched off, two lookup_symbol_in_language
\* calls that differ only in the letter case of the query name, with the
\* same block, domain, language and catalog, return the same symbol.
C9_SameSymbolInAnyCase ==
  cat.case_off =>
    \A n1 \in AllNames, n2 \in AllNames :
       LowerName(n1) = LowerName(n2) =>
         \A block \in Contexts, domain \in Domains, want \in BOOLEAN :
            lookup_symbol_in_language(St, n1, block, domain, cat.language, want).val
              = lookup_symbol_in_language(St, n2, block, domain, cat.language, want).val

-----------------------------------------------------------------------------
(* Address lookup among overlapping units.                                 *)

\* Two units whose address ranges overlap: a.c at [0,100) and b.c at
\* [50,150).  addr1 and addr2 list the addresses of the functions of a.c and
\* b.c; reordered is the OBJF_REORDERED flag; with minimal the program has
\* minimal symbols for the functions at 10 and 60 and a data symbol at 120.
Overlapping(addr1, addr2, reordered, minimal) ==
  [pst |-> <<[filename |-> <<"a">>, textlow |-> 0, texthigh |-> 100,
              globals |-> [i \in 1..Len(addr1) |-> Func(<<"f">>, addr1[i])],
              statics |-> <<>>, unit |-> 1],
             [filename |-> <<"b">>, textlow |-> 50, texthigh |-> 150,
              globals |-> <<>>,
              statics |-> [i \in 1..Len(addr2) |-> Func(<<"h">>, addr2[i])],
              unit |-> 2]>>,
   unit |-> <<[symtabs |-> <<[filename |-> <<"a">>, primary |-> TRUE,
                              linetable |-> <<Entry(1, 0), Entry(0, 100)>>]>>,
               blocks |-> [n \in {"G", "S"} |->
                 CASE n = "G" -> Block("", FALSE,
                                       [i \in 1..Len(addr1) |-> Func(<<"f">>, addr1[i])],
                                       0, 100)
                   [] n = "S" -> Block("G", FALSE, <<>>, 0, 100)]],
              [symtabs |-> <<[filename |-> <<"b">>, primary |-> TRUE,
                              linetable |-> <<Entry(1, 50), Entry(0, 150)>>]>>,
               blocks |-> [n \in {"G", "S"} |->
                 CASE n = "G" -> Block("", FALSE, <<>>, 50, 150)
                   [] n = "S" -> Block("G", FALSE,
                                       [i \in 1..Len(addr2) |-> Func(<<"h">>, addr2[i])],
                                       50, 150)]]>>,
   msyms |-> IF minimal
             THEN <<[name |-> <<"f">>, addr |-> 10, type |-> "mst_text", sect |-> 1],
                    [name |-> <<"h">>, addr |-> 60, type |-> "mst_text", sect |-> 1],
                    [name |-> <<"g">>, addr |-> 120, type |-> "mst_data", sect |-> 1]>>
             ELSE <<>>,
   reordered |-> reordered, addrmap |-> <<>>, overlay_debugging |-> FALSE,
   case_off |-> FALSE, language |-> "language_c"]

\* The functions of the two units: one each, at 10 and 60; a second
\* function of a.c at 65; none known in b.c; a.c's only function at 60 too.
FunctionLayouts ==
  {<<<<10>>, <<60>>>>, <<<<10, 65>>, <<60>>>>, <<<<10>>, <<>>>>, <<<<60>>, <<60>>>>}

PcQueries == {10, 49, 60, 70, 100, 120, 150}

InitPc ==
  \E a \in FunctionLayouts, reordered \in BOOLEAN, minimal \in BOOLEAN :
     Fresh(Overlapping(a[1], a[2], reordered, minimal))

FindPcPsymtabAny == FindPcPsymtabIn(PcQueries, Sections)
FindPcSymtabAny == FindPcSymtabIn(PcQueries, Sections)

NextPc ==
  \/ Convert
  \/ FindPcPsymtabAny
  \/ FindPcSymtabAny

SpecPc == InitPc /\ [][NextPc]_vars

\* The partial symtabs whose range contains pc.
Containing(pc) ==
  {p \in Psts : pc >= cat.pst[p].textlow /\ pc < cat.pst[p].texthigh}

\* The address partial symtab p is ranked by: that of its last function at
\* or below pc, its textlow when it has none.
RankAddr(p, pc, section) ==
  IF find_pc_sect_psymbol(p, pc, section).found
  THEN find_pc_sect_psymbol(p, pc, section).addr
  ELSE cat.pst[p].textlow

\* The claim as written: without an addrmap, the partial symtab returned for
\* pc is, among those whose range contains pc, the one with the function
\* symbol of the greatest address not above pc; in the program with ranges
\* [0,100) and [50,150) and functions at 10 and 60, the query for 70 returns
\* the second unit.
C8_ClosestFunctionWins ==
  res.op = "find_pc_sect_psymtab" =>
    LET pc == res.args.pc
        section == res.args.section
        F == {p \in Containing(pc) : find_pc_sect_psymbol(p, pc, section).found}
    IN /\ F # {} =>
            /\ res.val \in F
            /\ \A q \in F : find_pc_sect_psymbol(q, pc, section).addr
                              <= find_pc_sect_psymbol(res.val, pc, section).addr
       /\ ( /\ cat.pst[1].globals = <<Func(<<"f">>, 10)>>
            /\ cat.pst[2].statics = <<Func(<<"h">>, 60)>>
            /\ pc = 70 )
            => res.val = 2

\* C8: overlap tie-break in find_pc_sect_psymtab when no addrmap answers.
\* An address a data minimal symbol covers, or that no partial symtab
\* contains, has none.  When the objfile is not marked as reordered and no
\* section is given, or when no minimal symbol covers pc, the first partial
\* symtab whose range contains pc is returned.  Otherwise the one returned
\* is, among those containing pc, the first with a function at the address
\* of the minimal symbol covering pc and, failing that, the first of those
\* whose last function at or below pc (textlow if it has none) has the
\* greatest address.  With ranges [0,100) and [50,150), functions at 10 and
\* 60 and minimal symbols for them, the query for 70 returns the second
\* unit if the objfile is reordered or a section is given, else the first.
C8_ClosestFunctionWinsWhenReordered ==
  /\ \A pc \in PcQueries, section \in Sections :
        LET C == Containing(pc)
            msym == lookup_minimal_symbol_by_pc_section(pc, section)
            X == {p \in C : /\ find_pc_sect_psymbol(p, pc, section).found
                            /\ find_pc_sect_psymbol(p, pc, section).addr
                                 = cat.msyms[msym].addr}
            B == {p \in C : \A q \in C : RankAddr(q, pc, section) <= RankAddr(p, pc, section)}
            r == find_pc_sect_psymtab(pc, section)
        IN IF (msym # 0 /\ cat.msyms[msym].type \in DataTypes) \/ C = {} THEN r = 0
           ELSE IF (~cat.reordered /\ section = 0) \/ msym = 0 THEN r = First(C)
           ELSE IF X # {} THEN r = First(X)
           ELSE r = First(B)
  /\ ( /\ cat.pst[1].globals = <<Func(<<"f">>, 10)>>
       /\ cat.pst[2].statics = <<Func(<<"h">>, 60)>>
       /\ cat.msyms # <<>> )
        => /\ find_pc_sect_psymtab(70, 1) = 2
           /\ find_pc_sect_psymtab(70, 0) = IF cat.reordered THEN 2 ELSE 1
  /\ (res.op = "find_pc_sect_psymtab" => res.val = find_pc_sect_psymtab(res.args.pc, res.args.section))

\* In the reordered program with functions at 10 and 60, the query for 70
\* came back with the second unit.
C8_Witness ==
  /\ res.op = "find_pc_sect_psymtab"
  /\ res.args.pc = 70
  /\ res.args.section = 0
  /\ cat.reordered
  /\ cat.pst[1].globals = <<Func(<<"f">>, 10)>>
  /\ cat.pst[2].statics = <<Func(<<"h">>, 60)>>
  /\ Containing(70) = {1, 2}
  /\ res.val = 2

-----------------------------------------------------------------------------
(* Completion.                                                             *)

\* A program with the names alpha, alphabet and beta.  a.c has the global
\* alpha, the static beta and function f, whose local is alphabet and whose
\* inner block declares a struct type with the fields alp and be; b.c has
\* the global alphabet.  The minimal symbols are f, alpe (no debug
\* information) and, with objc set, the Objective-C method -[A(B) alp].
Completable(objc) ==
  [pst |-> <<[filename |-> <<"a">>, textlow |-> 0, texthigh |-> 2,
              globals |-> SortPsyms(<<Func(<<"f">>, 0), Var(<<"a", "l", "p", "h", "a">>)>>),
              statics |-> <<Var(<<"b", "e", "t", "a">>)>>, unit |-> 1],
             [filename |-> <<"b">>, textlow |-> 2, texthigh |-> 4,
              globals |-> <<Var(<<"a", "l", "p", "h", "a", "b", "e", "t">>)>>,
              statics |-> <<>>, unit |-> 2]>>,
   unit |-> <<[symtabs |-> <<[filename |-> <<"a">>, primary |-> TRUE,
                              linetable |-> <<Entry(1, 0), Entry(0, 2)>>]>>,
               blocks |-> [n \in {"G", "S", "F", "L"} |->
                 CASE n = "G" -> Block("", FALSE,
                                       <<Func(<<"f">>, 0), Var(<<"a", "l", "p", "h", "a">>)>>,
                                       0, 2)
                   [] n = "S" -> Block("G", FALSE, <<Var(<<"b", "e", "t", "a">>)>>, 0, 2)
                   [] n = "F" -> Block("S", TRUE,
                                       <<Var(<<"a", "l", "p", "h", "a", "b", "e", "t">>)>>,
                                       0, 2)
                   [] n = "L" -> Block("F", FALSE,
                                       <<Typedef(<<"t", "a">>,
                                                 <<<<"a", "l", "p">>, <<"b", "e">>>>)>>,
                                       1, 2)]],
              [symtabs |-> <<[filename |-> <<"b">>, primary |-> TRUE,
                              linetable |-> <<Entry(1, 2), Entry(0, 4)>>]>>,
               blocks |-> [n \in {"G", "S"} |->
                 CASE n = "G" -> Block("", FALSE,
                                       <<Var(<<"a", "l", "p", "h", "a", "b", "e", "t">>)>>,
                                       2, 4)
                   [] n = "S" -> Block("G", FALSE, <<>>, 2, 4)]]>>,
   msyms |-> <<[name |-> <<"f">>, addr |-> 0, type |-> "mst_text", sect |-> 1],
               [name |-> <<"a", "l", "p", "e">>, addr |-> 1, type |-> "mst_text", sect |-> 1]>>
             \o (IF objc
                 THEN <<[name |-> <<"-", "[", "A", "(", "B", ")", " ", "a", "l", "p", "]">>,
                         addr |-> 3, type |-> "mst_text", sect |-> 1]>>
                 ELSE <<>>),
   reordered |-> FALSE, addrmap |-> <<>>, overlay_debugging |-> FALSE,
   case_off |-> FALSE, language |-> "language_c"]

\* The texts completed: alph; alp after an operator; a bracket inside single
\* quotes; al inside an open double-quoted string.
Texts == {<<"a", "l", "p", "h">>, <<"-", "a", "l", "p">>, <<"'", "[", "A">>,
          <<"\"", "a", "l">>}

InitCompl == \E objc \in BOOLEAN : Fresh(Completable(objc))

CompleteAny == CompleteIn(Texts, {-1, 0, 1}, {0, 1})

NextCompl ==
  \/ Convert
  \/ CompleteAny

SpecCompl == InitCompl /\ [][NextCompl]_vars

Range(seq) == {seq[i] : i \in 1..Len(seq)}

\* The symbol text of a text that does not end inside a double-quoted string.
SymText(text) == SubSeq(text, SymTextStart(text) + 1, Len(text))

\* Block b and the blocks around it.
RECURSIVE Around(_)
Around(b) == IF b = NoBlock THEN {} ELSE {b} \cup Around(BLOCK_SUPERBLOCK(b))

\* The names a completion scans with sel the selected block: the partial
\* symbols of the partial symtabs not read in, the minimal symbols, the
\* symbols and the struct and union field names of the blocks around sel,
\* and the symbols of the global and static block of every primary symtab.
ScannedNames(sel) ==
  UNION {Range([i \in 1..Len(cat.pst[p].globals \o cat.pst[p].statics) |->
                  symbol_natural_name((cat.pst[p].globals \o cat.pst[p].statics)[i])]) :
           p \in {q \in Psts : ~readin[q]}}
  \cup {cat.msyms[i].name : i \in 1..Len(cat.msyms)}
  \cup UNION {{symbol_natural_name(BLOCK_DICT(b)[i]) : i \in 1..Len(BLOCK_DICT(b))} :
                b \in Around(sel)}
  \cup UNION {UNION {Range(BLOCK_DICT(b)[i].type.fields) :
                       i \in {j \in 1..Len(BLOCK_DICT(b)) :
                                /\ BLOCK_DICT(b)[j].class = "LOC_TYPEDEF"
                                /\ BLOCK_DICT(b)[j].type.code
                                     \in {"TYPE_CODE_STRUCT", "TYPE_CODE_UNION"}}} :
                b \in Around(sel)}
  \cup UNION {{symbol_natural_name(BLOCK_DICT(<<t[1], n>>)[i]) :
                 i \in 1..Len(BLOCK_DICT(<<t[1], n>>))} :
                t \in {u \in LiveSymtabs : SymtabRec(u).primary},
                n \in {GLOBAL_BLOCK, STATIC_BLOCK}}

\* The claim as written: the completion of token T is, as a set, exactly
\* the scanned names that start with T.
C10_ExactlyTheScannedNames ==
  \A text \in Texts, sel \in Contexts :
     SymTextStart(text) >= 0 =>
        Range(default_make_symbol_completion_list(St, text, SymTextStart(text), sel, 0).out)
          = {n \in ScannedNames(sel) : HasPrefix(n, SymText(text))}

\* The forms an Objective-C method name m = -[Class(Category) selector] is
\* also offered in: the selector alone, the name without the category and,
\* when the symbol text starts with a bracket, both names without the sign.
MethodForms(m, bracket) ==
  LET sp == FirstIndexOf(m, " ")
      par == FirstIndexOf(m, "(")
      selector == SubSeq(m, sp + 1, Len(m))
      close == FirstIndexOf(selector, "]")
      plain == SubSeq(m, 1, par - 1) \o <<" ">> \o selector
  IN IF m = <<>> \/ m[1] \notin {"-", "+"} THEN {}
     ELSE (IF bracket THEN {Tail(m)} ELSE {})
          \cup (IF sp # 0 /\ par # 0 THEN {plain} ELSE {})
          \cup (IF sp # 0 /\ par # 0 /\ bracket THEN {Tail(plain)} ELSE {})
          \cup (IF sp = 0 THEN {}
                ELSE IF close = 0 THEN {selector}
                ELSE {SubSeq(selector, 1, close - 1)})

\* A matching name as it is returned when the word being completed starts
\* at offset word and the symbol text at offset start of text.
Returned(n, text, start, word) ==
  IF word = start THEN n
  ELSE IF word > start THEN SubSeq(n, word - start + 1, Len(n))
  ELSE SubSeq(text, word + 1, start) \o n

\* C10: completion exactness.  default_make_symbol_completion_list returns
\* nothing for a text that ends inside a double-quoted string.  Otherwise,
\* with T the symbol text, it returns, as a set, exactly the names that
\* start with T among the scanned names and the extra forms of the minimal
\* symbols that are Objective-C methods; no name without prefix T is
\* returned and none with prefix T is missing.  Each name is returned as
\* such when the word being completed starts where T starts, else with the
\* text between the two prepended or its first characters dropped.
C10_ExactlyTheOfferedNames ==
  \A text \in Texts, sel \in Contexts :
     \A word \in 0..Len(text) :
        LET start == SymTextStart(text)
            out == default_make_symbol_completion_list(St, text, word, sel, 0).out
            offered == ScannedNames(sel)
                       \cup UNION {MethodForms(cat.msyms[i].name,
                                               SymText(text) # <<>> /\ SymText(text)[1] = "[") :
                                     i \in 1..Len(cat.msyms)}
        IN IF start < 0 THEN out = <<>>
           ELSE Range(out) = {Returned(n, text, start, word) :
                                n \in {m \in offered : HasPrefix(m, SymText(text))}}

\* With a.c read in and b.c not, completing alph from the inner block of f
\* gave alpha and alphabet and nothing else.
C10_Witness ==
  /\ res.op = "default_make_symbol_completion_list"
  /\ res.args.text = <<"a", "l", "p", "h">>
  /\ res.args.word = 0
  /\ res.args.sel = <<1, "L">>
  /\ res.args.cancel = 0
  /\ readin = <<TRUE, FALSE>>
  /\ <<"b", "e", "t", "a">> \in ScannedNames(<<1, "L">>)
  /\ Range(res.val) = {<<"a", "l", "p", "h", "a">>, <<"a", "l", "p", "h", "a", "b", "e", "t">>}

-----------------------------------------------------------------------------
(* Symbol search: a program with functions, variables and bare msymbols.   *)

\* A symbol the reader attributes to the second symtab of its unit (the
\* header the unit includes).
InHeader(y) == [y EXCEPT !.symtab = 2]

\* Unit a.c at [0,4) includes header h; its global block holds the functions
\* z and b and the variable g, its static block the function h, the variable
\* a and the header's function e.  Unit b.c at [4,6) holds the global
\* functions zb and az and the static variable za.  With nodebug set, the
\* minimal symbols pz (text) and lz (data) have no debug information.
Searchable(nodebug) ==
  [pst |-> <<[filename |-> <<"a">>, textlow |-> 0, texthigh |-> 4,
              globals |-> SortPsyms(<<Func(<<"z">>, 0), Func(<<"b">>, 1), Var(<<"g">>)>>),
              statics |-> <<Func(<<"h">>, 2), Var(<<"a">>), InHeader(Func(<<"e">>, 3))>>,
              unit |-> 1],
             [filename |-> <<"b">>, textlow |-> 4, texthigh |-> 6,
              globals |-> SortPsyms(<<Func(<<"z", "b">>, 4), Func(<<"a", "z">>, 5)>>),
              statics |-> <<Var(<<"z", "a">>)>>, unit |-> 2]>>,
   unit |-> <<[symtabs |-> <<[filename |-> <<"a">>, primary |-> TRUE,
                              linetable |-> <<Entry(1, 0), Entry(0, 4)>>],
                             [filename |-> <<"h">>, primary |-> FALSE,
                              linetable |-> <<Entry(1, 3)>>]>>,
               blocks |-> [n \in {"G", "S"} |->
                 CASE n = "G" -> Block("", FALSE,
                                       <<Func(<<"z">>, 0), Func(<<"b">>, 1), Var(<<"g">>)>>,
                                       0, 4)
                   [] n = "S" -> Block("G", FALSE,
                                       <<Func(<<"h">>, 2), Var(<<"a">>),
                                         InHeader(Func(<<"e">>, 3))>>,
                                       0, 4)]],
              [symtabs |-> <<[filename |-> <<"b">>, primary |-> TRUE,
                              linetable |-> <<Entry(1, 4), Entry(0, 6)>>]>>,
               blocks |-> [n \in {"G", "S"} |->
                 CASE n = "G" -> Block("", FALSE,
                                       <<Func(<<"z", "b">>, 4), Func(<<"a", "z">>, 5)>>,
                                       4, 6)
                   [] n = "S" -> Block("G", FALSE, <<Var(<<"z", "a">>)>>, 4, 6)]]>>,
   msyms |-> <<[name |-> <<"z">>, addr |-> 0, type |-> "mst_text", sect |-> 1],
               [name |-> <<"z", "b">>, addr |-> 4, type |-> "mst_text", sect |-> 1],
               [name |-> <<"g">>, addr |-> 7, type |-> "mst_data", sect |-> 1]>>
             \o (IF nodebug
                 THEN <<[name |-> <<"p", "z">>, addr |-> 8, type |-> "mst_text", sect |-> 1],
                        [name |-> <<"l", "z">>, addr |-> 9, type |-> "mst_data", sect |-> 1],
                        [name |-> <<"p">>, addr |-> 10, type |-> "mst_text", sect |-> 1]>>
                 ELSE <<>>),
   reordered |-> FALSE, addrmap |-> <<>>, overlay_debugging |-> FALSE,
   case_off |-> FALSE, language |-> "language_c"]

\* The patterns searched for: none, a letter, an unterminated bracket.
SearchPatterns == {NoName, <<"z">>, <<"[">>}
\* The file filters: none, each source file, the header.
FileSets == {<<>>, <<<<"a">>>>, <<<<"b">>>>, <<<<"h">>>>}

InitSearch == \E nodebug \in BOOLEAN : Fresh(Searchable(nodebug))

SearchAny == SearchSymbolsIn(SearchPatterns, Kinds, FileSets)

NextSearch ==
  \/ Convert
  \/ SearchAny

SpecSearch == InitSearch /\ [][NextSearch]_vars

-----------------------------------------------------------------------------
(* Properties of the symbol search.                                        *)

\* The global and static blocks of the tables in catalog state s.
FileBlocks(s) ==
  {<<s.symtabs[i][1], n>> : i \in 1..Len(s.symtabs), n \in {GLOBAL_BLOCK, STATIC_BLOCK}}

\* The debug symbols of those blocks.
FileSymbols(s) ==
  {<<b[1], b[2], i>> : b \in FileBlocks(s), i \in 1..3} \cap
  {y \in (1..Len(cat.unit)) \X {GLOBAL_BLOCK, STATIC_BLOCK} \X (1..3) :
     y[3] <= Len(BLOCK_DICT(<<y[1], y[2]>>))}

\* Symbol y passes the pattern and the file filter of a search.
PassesFilters(y, regexp, files) ==
  /\ file_matches(Unit(y[1]).symtabs[SymRec(y).symtab].filename, files)
  /\ RegexpMatches(regexp, symbol_natural_name(SymRec(y)))

\* The debug symbols a search result lists.
Listed(out) == {out[i].symbol : i \in 1..Len(out)} \ {NoSym}

-----------------------------------------------------------------------------
(* Lookups in one object file and lookups of transparent types.            *)

\* A variant that falls back to the other block and reports an internal
\* error when the table does not hold what the index named.
lookup_global_symbol_from_objfile_checked(s, name, linkage_name, domain) ==
  With(SymtabsLoop(s, s.symtabs, GLOBAL_BLOCK, name, linkage_name, domain),
    LAMBDA r : IF r.val # NoSym THEN r
               ELSE lookup_symbol_aux_psymtabs(s, GLOBAL_BLOCK, name, linkage_name, domain))

\* lookup_global_symbol_from_objfile (objfile, name, linkage_name, domain);
\* the object file has no separate debug file.
lookup_global_symbol_from_objfile(s, name, linkage_name, domain) ==
  With(SymtabsLoop(s, s.symtabs, GLOBAL_BLOCK, name, linkage_name, domain),
    LAMBDA r :
      IF r.val # NoSym THEN r
      ELSE With({p \in 1..Len(cat.pst) :
                   /\ ~s.readin[p]
                   /\ lookup_partial_symbol(p, name, linkage_name, TRUE, domain)},
             LAMBDA C :
               IF C = {} THEN NotFound(s)
               ELSE With(PSYMTAB_TO_SYMTAB(s, First(C)),
                      LAMBDA t :
                        IF t.val = NoSymtab THEN Failed(t.st, "segv")
                        ELSE [NotFound(t.st) EXCEPT !.val =
                                lookup_block_symbol(
                                  BLOCKVECTOR_BLOCK(BLOCKVECTOR(t.val), GLOBAL_BLOCK),
                                  name, linkage_name, domain)])))

\* TYPE_IS_OPAQUE (type): an aggregate without fields.
TYPE_IS_OPAQUE(t) ==
  t.code \in {"TYPE_CODE_STRUCT", "TYPE_CODE_UNION"} /\ t.fields = <<>>

\* The ALL_PRIMARY_SYMTABS passes of basic_lookup_transparent_type: the
\* symbol whose type is returned, NoSym when the pass ends without one.
RECURSIVE TransparentSymtabs(_, _, _)
TransparentSymtabs(list, block_index, name) ==
  IF list = <<>> THEN NoSym
  ELSE With(lookup_block_symbol(BLOCKVECTOR_BLOCK(BLOCKVECTOR(Head(list)), block_index),
                                name, NoName, "STRUCT_DOMAIN"),
         LAMBDA y :
           IF y # NoSym /\ ~TYPE_IS_OPAQUE(SymRec(y).type) THEN y
           ELSE TransparentSymtabs(Tail(list), block_index, name))

\* The ALL_PSYMTABS passes of basic_lookup_transparent_type, from p on.
RECURSIVE TransparentPsymtabs(_, _, _, _)
TransparentPsymtabs(s, p, block_index, name) ==
  IF p > Len(cat.pst) THEN NotFound(s)
  ELSE IF s.readin[p]
          \/ ~lookup_partial_symbol(p, name, NoName, block_index = GLOBAL_BLOCK,
                                    "STRUCT_DOMAIN")
  THEN TransparentPsymtabs(s, p + 1, block_index, name)
  ELSE With(PSYMTAB_TO_SYMTAB(s, p),
         LAMBDA t :
           IF t.val = NoSymtab THEN Failed(t.st, "segv")
           ELSE With(lookup_block_symbol(BLOCKVECTOR_BLOCK(BLOCKVECTOR(t.val), block_index),
                                         name, NoName, "STRUCT_DOMAIN"),
                  LAMBDA y1 :
                    With(IF y1 # NoSym THEN y1
                         ELSE lookup_block_symbol(
                                BLOCKVECTOR_BLOCK(BLOCKVECTOR(t.val), OtherBlock(block_index)),
                                name, NoName, "STRUCT_DOMAIN"),
                      LAMBDA y :
                        IF y = NoSym THEN Failed(t.st, "internal")
                        ELSE IF ~TYPE_IS_OPAQUE(SymRec(y).type) THEN Found(t.st, y)
                        ELSE TransparentPsymtabs(t.st, p + 1, block_index, name))))

\* basic_lookup_transparent_type (name): val is the symbol whose type is
\* returned, NoSym when the result is the null type.
basic_lookup_transparent_type(s, name) ==
  With(TransparentSymtabs(PrimaryOnly(s.symtabs), GLOBAL_BLOCK, name),
    LAMBDA y1 :
      IF y1 # NoSym THEN Found(s, y1)
      ELSE With(TransparentPsymtabs(s, 1, GLOBAL_BLOCK, name),
             LAMBDA r2 :
               IF r2.val # NoSym \/ r2.err # "" THEN r2
               ELSE With(TransparentSymtabs(PrimaryOnly(r2.st.symtabs), STATIC_BLOCK, name),
                      LAMBDA y3 :
                        IF y3 # NoSym THEN Found(r2.st, y3)
                        ELSE TransparentPsymtabs(r2.st, 1, STATIC_BLOCK, name))))

\* lookup_global_symbol_from_objfile on the one object file.
LookupGlobalFromObjfileIn(names, domains) ==
  \E name \in names, domain \in domains :
     LET r == lookup_global_symbol_from_objfile(St, name, NoName, domain)
     IN \E o \in Outcomes(r) :
          Commit(o.st, "lookup_global_symbol_from_objfile",
                 [name |-> name, domain |-> domain, readin |-> readin], o.val, o.err)

\* lookup_transparent_type (name) in a language with the standard hook.
LookupTransparentTypeIn(names) ==
  \E name \in names :
     LET r == basic_lookup_transparent_type(St, name)
     IN \E o \in Outcomes(r) :
          Commit(o.st, "basic_lookup_transparent_type",
                 [name |-> name, readin |-> readin], o.val, o.err)

-----------------------------------------------------------------------------
(* An object file whose index and tables disagree.                         *)

\* Unit a.c defines function f, variable g and struct type ta.  Its partial
\* symtab lists g and ta as global (index = "G") or as static ("S"); its
\* full table holds them in the global block, in the static block, or not
\* at all (table = "G", "S", "none").  Unit b.c defines function h and
\* declares ta without fields.
Mismatched(index, table) ==
  LET pair == <<Var(<<"g">>), Typedef(<<"t", "a">>, <<<<"l">>>>)>>
      at(where, n) == IF where = n THEN pair ELSE <<>>
  IN
  [pst |-> <<[filename |-> <<"a">>, textlow |-> 0, texthigh |-> 2,
              globals |-> SortPsyms(<<Func(<<"f">>, 0)>> \o at(index, "G")),
              statics |-> at(index, "S"), unit |-> 1],
             [filename |-> <<"b">>, textlow |-> 2, texthigh |-> 4,
              globals |-> SortPsyms(<<Func(<<"h">>, 2), Typedef(<<"t", "a">>, <<>>)>>),
              statics |-> <<>>, unit |-> 2]>>,
   unit |-> <<[symtabs |-> <<[filename |-> <<"a">>, primary |-> TRUE,
                              linetable |-> <<Entry(1, 0), Entry(0, 2)>>]>>,
               blocks |-> [n \in {"G", "S"} |->
                 CASE n = "G" -> Block("", FALSE, <<Func(<<"f">>, 0)>> \o at(table, "G"), 0, 2)
                   [] n = "S" -> Block("G", FALSE, at(table, "S"), 0, 2)]],
              [symtabs |-> <<[filename |-> <<"b">>, primary |-> TRUE,
                              linetable |-> <<Entry(1, 2), Entry(0, 4)>>]>>,
               blocks |-> [n \in {"G", "S"} |->
                 CASE n = "G" -> Block("", FALSE,
                                       <<Func(<<"h">>, 2), Typedef(<<"t", "a">>, <<>>)>>, 2, 4)
                   [] n = "S" -> Block("G", FALSE, <<>>, 2, 4)]]>>,
   msyms |-> <<[name |-> <<"f">>, addr |-> 0, type |-> "mst_text", sect |-> 1],
               [name |-> <<"h">>, addr |-> 2, type |-> "mst_text", sect |-> 1]>>,
   reordered |-> FALSE, addrmap |-> <<>>, overlay_debugging |-> FALSE,
   case_off |-> FALSE, language |-> "language_c"]

IndexedNames == {<<"g">>, <<"t", "a">>, <<"h">>}

InitIndex ==
  \E index \in {"G", "S"}, table \in {"G", "S", "none"} : Fresh(Mismatched(index, table))

LookupIndexed == LookupIn(IndexedNames, Domains, {FALSE})
LookupGlobalFromObjfile == LookupGlobalFromObjfileIn(IndexedNames, Domains)
LookupTransparentType == LookupTransparentTypeIn(IndexedNames)

NextIndex ==
  \/ Convert
  \/ LookupIndexed
  \/ LookupGlobalFromObjfile
  \/ LookupTransparentType

SpecIndex == InitIndex /\ [][NextIndex]_vars

-----------------------------------------------------------------------------
(* Properties of the lookups that go through the index.                    *)

\* The partial symtabs a call that led from catalog state s to r.st read in.
ReadInBy(s, r) == {p \in 1..Len(cat.pst) : ~s.readin[p] /\ r.st.readin[p]}

\* What the table of partial symtab p holds under that name, looking first
\* in block named and then in the other file-level block.
TableSymbol(p, named, name, domain) ==
  LET bv == cat.pst[p].unit
      y1 == lookup_block_symbol(BLOCKVECTOR_BLOCK(bv, named), name, NoName, domain)
  IN IF y1 # NoSym THEN y1
     ELSE lookup_block_symbol(BLOCKVECTOR_BLOCK(bv, OtherBlock(named)), name, NoName, domain)

\* Result r of a lookup for the index list named, started in catalog state
\* s, is re-validated: when the call read a partial symtab in, r is the
\* symbol its table holds in the named block, else the one in the other
\* block, else the internal error.
Revalidated(s, r, named, name, domain) ==
  \A p \in ReadInBy(s, r) :
     /\ r.val = TableSymbol(p, named, name, domain)
     /\ r.err = IF r.val = NoSym THEN "internal" ELSE ""

\* Result r of a transparent type lookup is re-validated: every partial
\* symtab the call read in holds the type name in a file-level block unless
\* the call ended in the internal error, and a null result means every such
\* type is opaque.
RevalidatedType(s, r, name) ==
  \A p \in ReadInBy(s, r) :
     LET y == TableSymbol(p, GLOBAL_BLOCK, name, "STRUCT_DOMAIN")
     IN /\ y = NoSym => r.err = "internal"
        /\ (r.val = NoSym /\ r.err = "") => (y # NoSym /\ TYPE_IS_OPAQUE(SymRec(y).type))

\* lookup_symbol_aux_psymtabs and basic_lookup_transparent_type re-validate
\* what the index named, in every reachable catalog state.
IndexMismatchRevalidated ==
  \A name \in IndexedNames :
     /\ \A domain \in Domains, named \in {GLOBAL_BLOCK, STATIC_BLOCK} :
          Revalidated(St, lookup_symbol_aux_psymtabs(St, named, name, NoName, domain),
                      named, name, domain)
     /\ RevalidatedType(St, basic_lookup_transparent_type(St, name), name)

\* C12: index/table disagreement.  In each of lookup_symbol_aux_psymtabs,
\* lookup_global_symbol_from_objfile and basic_lookup_transparent_type, a
\* lookup that reads a partial symtab in because its index matched the name
\* returns the symbol from the block the index named, else from the other
\* file-level block, else raises the internal error; it never returns "not
\* found" silently.
C12_IndexMismatchNeverSilent ==
  \A name \in IndexedNames :
     /\ \A domain \in Domains, named \in {GLOBAL_BLOCK, STATIC_BLOCK} :
          Revalidated(St, lookup_symbol_aux_psymtabs(St, named, name, NoName, domain),
                      named, name, domain)
     /\ \A domain \in Domains :
          Revalidated(St, lookup_global_symbol_from_objfile(St, name, NoName, domain),
                      GLOBAL_BLOCK, name, domain)
     /\ RevalidatedType(St, basic_lookup_transparent_type(St, name), name)

-----------------------------------------------------------------------------
(* Lookup of a symtab by file name.                                        *)

\* The ALL_SYMTABS passes of lookup_symtab: the first symtab of that name.
SymtabNamed(s, name) ==
  LET M == {i \in 1..Len(s.symtabs) : Filename(s.symtabs[i]) = name}
  IN IF M = {} THEN NoSymtab ELSE s.symtabs[First(M)]

\* lookup_partial_symtab (name): the first partial symtab of that name, 0 if
\* none.
lookup_partial_symtab(name) ==
  LET M == {p \in 1..Len(cat.pst) : cat.pst[p].filename = name}
  IN IF M = {} THEN 0 ELSE First(M)

\* A variant that does not look at readin before converting the partial
\* symtab found.
RECURSIVE GotSymtab_unchecked(_, _, _)
GotSymtab_unchecked(s, name, jumps) ==
  IF jumps > MaxJumps
  THEN [st |-> s, val |-> NoSymtab, err |-> "", jumps |-> jumps, ended |-> FALSE]
  ELSE
  With(SymtabNamed(s, name),
    LAMBDA y :
      IF y # NoSymtab THEN [st |-> s, val |-> y, err |-> "", jumps |-> jumps, ended |-> TRUE]
      ELSE With(lookup_partial_symtab(name),
             LAMBDA ps :
               IF ps = 0
               THEN [st |-> s, val |-> NoSymtab, err |-> "", jumps |-> jumps, ended |-> TRUE]
               ELSE With(PSYMTAB_TO_SYMTAB(s, ps),
                      LAMBDA t :
                        IF t.val # NoSymtab
                        THEN [st |-> t.st, val |-> t.val, err |-> "", jumps |-> jumps,
                              ended |-> TRUE]
                        ELSE GotSymtab_unchecked(t.st, name, jumps + 1))))

\* lookup_symtab (name) for a name without directories, from the label
\* got_symtab on; jumps counts the goto got_symtab taken so far, and a call
\* that has taken more than MaxJumps of them is cut off with ended unset.
RECURSIVE GotSymtab(_, _, _)
GotSymtab(s, name, jumps) ==
  IF jumps > MaxJumps
  THEN [st |-> s, val |-> NoSymtab, err |-> "", jumps |-> jumps, ended |-> FALSE]
  ELSE
  With(SymtabNamed(s, name),
    LAMBDA y :
      IF y # NoSymtab THEN [st |-> s, val |-> y, err |-> "", jumps |-> jumps, ended |-> TRUE]
      ELSE With(lookup_partial_symtab(name),
             LAMBDA ps :
               IF ps = 0
               THEN [st |-> s, val |-> NoSymtab, err |-> "", jumps |-> jumps, ended |-> TRUE]
               ELSE IF s.readin[ps]
               THEN [st |-> s, val |-> NoSymtab, err |-> "internal", jumps |-> jumps,
                     ended |-> TRUE]
               ELSE With(PSYMTAB_TO_SYMTAB(s, ps),
                      LAMBDA t :
                        IF t.val # NoSymtab
                        THEN [st |-> t.st, val |-> t.val, err |-> "", jumps |-> jumps,
                              ended |-> TRUE]
                        ELSE GotSymtab(t.st, name, jumps + 1))))

\* lookup_symtab (name).
lookup_symtab(s, name) == GotSymtab(s, name, 0)

LookupSymtabIn(names) ==
  \E name \in names :
     LET r == lookup_symtab(St, name)
     IN Commit(r.st, "lookup_symtab",
               [name |-> name, readin |-> readin, jumps |-> r.jumps], r.val, r.err)

-----------------------------------------------------------------------------
(* An object file with a unit the reader cannot produce a table for.       *)

\* Units a.c and b.c both define a global g; a.c also has the function f
\* and the static ta, b.c the function h.  The reader yields no table for
\* the unit at position bad (1: a.c, 2: b.c), and a.c comes first in the
\* catalog when first is 1, second otherwise.
Unreadable(bad, first) ==
  LET a == [filename |-> <<"a">>, textlow |-> 0, texthigh |-> 2,
            globals |-> SortPsyms(<<Func(<<"f">>, 0), Var(<<"g">>)>>),
            statics |-> <<Typedef(<<"t", "a">>, <<<<"l">>>>)>>,
            unit |-> IF bad = 1 THEN 0 ELSE 1]
      b == [filename |-> <<"b">>, textlow |-> 2, texthigh |-> 4,
            globals |-> SortPsyms(<<Func(<<"h">>, 2), Var(<<"g">>)>>),
            statics |-> <<>>,
            unit |-> IF bad = 2 THEN 0 ELSE 1]
      ua == [symtabs |-> <<[filename |-> <<"a">>, primary |-> TRUE,
                            linetable |-> <<Entry(1, 0), Entry(0, 2)>>]>>,
             blocks |-> [n \in {"G", "S"} |->
               CASE n = "G" -> Block("", FALSE, <<Func(<<"f">>, 0), Var(<<"g">>)>>, 0, 2)
                 [] n = "S" -> Block("G", FALSE,
                                     <<Typedef(<<"t", "a">>, <<<<"l">>>>)>>, 0, 2)]]
      ub == [symtabs |-> <<[filename |-> <<"b">>, primary |-> TRUE,
                            linetable |-> <<Entry(1, 2), Entry(0, 4)>>]>>,
             blocks |-> [n \in {"G", "S"} |->
               CASE n = "G" -> Block("", FALSE, <<Func(<<"h">>, 2), Var(<<"g">>)>>, 2, 4)
                 [] n = "S" -> Block("G", FALSE, <<>>, 2, 4)]]
  IN
  [pst |-> IF first = 1 THEN <<a, b>> ELSE <<b, a>>,
   unit |-> IF bad = 1 THEN <<ub>> ELSE <<ua>>,
   msyms |-> <<[name |-> <<"f">>, addr |-> 0, type |-> "mst_text", sect |-> 1],
               [name |-> <<"h">>, addr |-> 2, type |-> "mst_text", sect |-> 1],
               [name |-> <<"g">>, addr |-> 5, type |-> "mst_data", sect |-> 1]>>,
   reordered |-> FALSE, addrmap |-> <<>>, overlay_debugging |-> FALSE,
   case_off |-> FALSE, language |-> "language_c"]

InitFail == \E bad \in {1, 2}, first \in {1, 2} : Fresh(Unreadable(bad, first))

LookupSymtab == LookupSymtabIn({<<"a">>, <<"b">>, <<"h">>})

NextFail ==
  \/ Convert
  \/ LookupIndexed
  \/ LookupGlobalFromObjfile
  \/ LookupTransparentType
  \/ LookupSymtab
  \/ SearchSymbols
  \/ FindPcSymtab

SpecFail == InitFail /\ [][NextFail]_vars

-----------------------------------------------------------------------------
(* Properties of lookups over a unit without a table.                      *)

\* The units of the catalog that the reader can produce a table for and
\* whose global block holds the name.
DefinedGlobally(name, domain) ==
  {p \in Psts : /\ cat.pst[p].unit # 0
                /\ lookup_block_symbol(BLOCKVECTOR_BLOCK(cat.pst[p].unit, GLOBAL_BLOCK),
                                       name, NoName, domain) # NoSym}

\* The name and file lookups of one catalog state that go through every
\* unit, with what they are asked for.
CatalogWide ==
  {<<"lookup_symbol", n, d>> : n \in IndexedNames, d \in Domains}
    \cup {<<"lookup_global_symbol_from_objfile", n, d>> : n \in IndexedNames, d \in Domains}
    \cup {<<"lookup_symtab", n, "">> : n \in {<<"a">>, <<"b">>}}
    \cup {<<"search_symbols", n, k>> : n \in {NoName, <<"g">>},
                                       k \in {"VARIABLES_DOMAIN", "FUNCTIONS_DOMAIN"}}

\* What such a lookup yields from the current catalog state, as [val, err].
Yield(q) ==
  CASE q[1] = "lookup_symbol" ->
         LET r == lookup_symbol_in_language(St, q[2], NoBlock, q[3], cat.language, FALSE)
         IN [val |-> r.val, err |-> r.err]
    [] q[1] = "lookup_global_symbol_from_objfile" ->
         LET r == lookup_global_symbol_from_objfile(St, q[2], NoName, q[3])
         IN [val |-> r.val, err |-> r.err]
    [] q[1] = "lookup_symtab" ->
         LET r == lookup_symtab(St, q[2]) IN [val |-> r.val, err |-> r.err]
    [] q[1] = "search_symbols" ->
         LET a == search_symbols(St, q[2], q[3], <<>>, 0) IN [val |-> a.out, err |-> a.err]

\* C13: a unit whose conversion yields no table counts as "not found".  In
\* every reachable catalog state every catalog-wide lookup by name, lookup
\* by file name and search returns normally (no trap, no error), and a name
\* that a readable unit defines globally is found there.
C13_ReaderFailureIsNotFound ==
  /\ \A q \in CatalogWide : Yield(q).err = ""
  /\ \A n \in IndexedNames, d \in Domains :
        DefinedGlobally(n, d) # {} =>
          /\ Yield(<<"lookup_symbol", n, d>>).val # NoSym
          /\ Yield(<<"lookup_global_symbol_from_objfile", n, d>>).val # NoSym

\* The scans that ignore the table the conversion returns do go on past a
\* unit without a table: find_pc_sect_symtab and function searches by
\* pattern return normally in every reachable catalog state.
ScansSurviveReaderFailure ==
  /\ \A pc \in 0..MaxPc : find_pc_sect_symtab(St, pc, 0).val \in {NoSymtab, <<1, 1>>}
  /\ \A regexp \in {NoName, <<"g">>, <<"h">>} :
        search_symbols(St, regexp, "FUNCTIONS_DOMAIN", <<>>, 0).err = ""

-----------------------------------------------------------------------------
(* Properties of the receiver-field check.                                 *)

\* The function block enclosing block b, NoBlock if there is none.
FunctionAround(b) ==
  LET W == Enclosing(b)
      F == {k \in 1..Len(W) : BLOCK_FUNCTION(W[k])}
  IN IF F = {} THEN NoBlock ELSE W[First(F)]

\* name is a member field of the aggregate the receiver variable of the
\* function around block b points to.
FieldOfReceiver(b, name) ==
  /\ la_name_of_this(cat.language) # NoName
  /\ FunctionAround(b) # NoBlock
  /\ \E i \in DeclaredAt(FunctionAround(b), la_name_of_this(cat.language), "VAR_DOMAIN") :
        LET t == BLOCK_DICT(FunctionAround(b))[i].type
        IN /\ t.code = "TYPE_CODE_PTR" /\ t.target = "TYPE_CODE_STRUCT"
           /\ \E k \in 1..Len(t.fields) : t.fields[k] = name

\* No block from b out to the function's block declares name.
NoLocalMatch(b, name, domain) ==
  \A k \in 1..Len(Enclosing(b)) : DeclaredAt(Enclosing(b)[k], name, domain) = {}

\* C14: field of the receiver.  For lookup_symbol_aux called with a non-null
\* is_a_field_of_this, from every reachable catalog state and for every
\* name, context block and domain: the flag is set only when no symbol is
\* returned and the name is a field of the receiver; a name without local
\* match that is a field of the receiver yields no symbol with the flag set,
\* whatever the static and global blocks hold, and nothing is read in; and a
\* returned symbol comes with the flag clear.
C14_FieldOfReceiver ==
  \A name \in AllNames, block \in Contexts, domain \in Domains :
     LET r == lookup_symbol_aux(St, name, NoName, block, domain, cat.language, TRUE)
     IN /\ r.field => (r.val = NoSym /\ FieldOfReceiver(block, name))
        /\ (NoLocalMatch(block, name, domain) /\ FieldOfReceiver(block, name))
             => (r.val = NoSym /\ r.field /\ r.err = "" /\ r.st = St)
        /\ r.val # NoSym => ~r.field

\* zf, a field of the receiver of member function f and also a global of
\* b.c, was looked up from the inner block of f with is_a_field_of_this
\* given: no symbol came back and the flag is set.
C14_Witness ==
  /\ res.op = "lookup_symbol"
  /\ res.args.name = <<"z", "f">>
  /\ res.args.block = <<1, "L">>
  /\ res.args.want_field
  /\ res.args.domain = "VAR_DOMAIN"
  /\ FieldOfReceiver(<<1, "L">>, <<"z", "f">>)
  /\ FileLevel(<<"z", "f">>, "VAR_DOMAIN")
  /\ res.val = [sym |-> NoSym, field |-> TRUE]
  /\ res.err = ""

-----------------------------------------------------------------------------
(* The cache of demangled names (symbol_set_names).                        *)

\* Largest count of demangler calls kept per lookup key.
MaxCalls == 2

\* objc_demangle: the mangled name of an Objective-C instance method starts
\* with the marker i, then the class, then the selector.
objc_demangle(n) ==
  IF Len(n) >= 3 /\ n[1] = "i"
  THEN <<"-", "[", n[2], " ">> \o SubSeq(n, 3, Len(n)) \o <<"]">>
  ELSE NoName

\* cplus_demangle with DMGL_JAVA: the names cplus_demangle accepts, printed
\* in Java syntax (rendered by a trailing j).
cplus_demangle_java(n) ==
  IF cplus_demangle(n) = NoName THEN NoName ELSE cplus_demangle(n) \o <<"j">>

\* symbol_find_demangled_name (gsymbol, mangled): the demangled name and the
\* language gsymbol is left with.
symbol_find_demangled_name(language, mangled) ==
  With(IF language = "language_unknown" THEN "language_auto" ELSE language,
    LAMBDA lang :
      IF lang \in {"language_objc", "language_auto"} /\ objc_demangle(mangled) # NoName
      THEN [language |-> "language_objc", demangled |-> objc_demangle(mangled)]
      ELSE IF lang \in {"language_cplus", "language_auto"}
              /\ cplus_demangle(mangled) # NoName
      THEN [language |-> "language_cplus", demangled |-> cplus_demangle(mangled)]
      ELSE IF lang = "language_java" /\ cplus_demangle_java(mangled) # NoName
      THEN [language |-> "language_java", demangled |-> cplus_demangle_java(mangled)]
      ELSE [language |-> lang, demangled |-> NoName])

\* JAVA_PREFIX, one token.
JAVA_PREFIX == <<"##JAVA$$">>

\* The key symbol_set_names looks a linkage name up under.
LookupKey(language, linkage_name) ==
  IF language = "language_java" THEN JAVA_PREFIX \o linkage_name ELSE linkage_name

\* A variant that demangles again on every call and stores what it gets.
symbol_set_names_refill(h, language, linkage_name) ==
  LET f == symbol_find_demangled_name(language, linkage_name)
      key == LookupKey(language, linkage_name)
  IN [hash |-> [k \in DOMAIN h \cup {key} |-> IF k = key THEN f.demangled ELSE h[k]],
      key |-> key, called |-> TRUE,
      name |-> linkage_name, demangled |-> f.demangled, language |-> f.language]

\* A variant that takes the language from the demangling on every call.
symbol_set_names_relanguage(h, language, linkage_name) ==
  LET f == symbol_find_demangled_name(language, linkage_name)
      key == LookupKey(language, linkage_name)
  IN IF key \in DOMAIN h
     THEN [hash |-> h, key |-> key, called |-> FALSE,
           name |-> linkage_name, demangled |-> h[key], language |-> f.language]
     ELSE [hash |-> [k \in DOMAIN h \cup {key} |-> IF k = key THEN f.demangled ELSE h[k]],
           key |-> key, called |-> TRUE,
           name |-> linkage_name, demangled |-> f.demangled, language |-> f.language]

\* symbol_set_names (gsymbol, linkage_name, len, objfile) on cache h: the new
\* cache, the key used (NoName: none), whether the demangler was called, and
\* the name, demangled name and language gsymbol is left with.
symbol_set_names(h, language, linkage_name) ==
  IF language = "language_ada"
  THEN [hash |-> h, key |-> NoName, called |-> FALSE,
        name |-> linkage_name, demangled |-> NoName, language |-> language]
  ELSE With(LookupKey(language, linkage_name),
         LAMBDA lookup_name :
           With(IF lookup_name \in DOMAIN h
                THEN [hash |-> h, called |-> FALSE, language |-> language]
                ELSE With(symbol_find_demangled_name(language, linkage_name),
                       LAMBDA f :
                         [hash |-> [k \in DOMAIN h \cup {lookup_name} |->
                                      IF k = lookup_name THEN f.demangled ELSE h[k]],
                          called |-> TRUE, language |-> f.language]),
             LAMBDA a :
               [hash |-> a.hash, key |-> lookup_name, called |-> a.called,
                name |-> SubSeq(lookup_name,
                                Len(lookup_name) - Len(linkage_name) + 1,
                                Len(lookup_name)),
                demangled |-> a.hash[lookup_name],
                language |-> a.language]))

\* The languages a reader passes symbols in with.
SymbolLanguages ==
  {"language_unknown", "language_c", "language_cplus", "language_java",
   "language_objc", "language_ada"}

\* The linkage names canonicalized: a C++ mangled name, a plain name and an
\* Objective-C mangled name.
LinkageNames == {<<"Z", "f">>, <<"g">>, <<"i", "A", "b">>}

\* One call of symbol_set_names by a reader.
SymbolSetNames ==
  \E language \in SymbolLanguages, linkage_name \in LinkageNames :
     LET r == symbol_set_names(demangled_names_hash, language, linkage_name)
     IN /\ demangled_names_hash' = r.hash
        /\ name_log' =
             IF r.key = NoName THEN name_log
             ELSE IF r.key \in DOMAIN name_log
             THEN [name_log EXCEPT ![r.key].calls =
                     IF r.called THEN Min(@ + 1, MaxCalls) ELSE @]
             ELSE [k \in DOMAIN name_log \cup {r.key} |->
                     IF k = r.key
                     THEN [calls |-> IF r.called THEN 1 ELSE 0,
                           name |-> r.name, demangled |-> r.demangled]
                     ELSE name_log[k]]
        /\ res' = [op |-> "symbol_set_names",
                   args |-> [language |-> language, linkage_name |-> linkage_name,
                             cached |-> r.key \in DOMAIN demangled_names_hash],
                   val |-> [name |-> r.name, demangled |-> r.demangled,
                            language |-> r.language],
                   err |-> ""]
        /\ UNCHANGED <<cat, readin, pst_symtab, symtabs, reads, block_found>>

InitNames == Init

NextNames ==
  \/ SymbolSetNames

SpecNames == InitNames /\ [][NextNames]_vars

-----------------------------------------------------------------------------
(* Properties of the cache of demangled names.                             *)

\* The key of the call recorded in res, NoName when the call used none.
CallKey ==
  IF res.args.language = "language_ada" THEN NoName
  ELSE LookupKey(res.args.language, res.args.linkage_name)

\* C15: name cache fill-once.  Within the object file, symbol_set_names
\* creates the entry of a lookup key only when there is none and never
\* changes or removes an entry; the demangler is called at most once per
\* key; and every call hands its symbol the stored name and the demangled
\* name that the first call with that key handed out.
C15_NameCacheFillOnce ==
  /\ [](\A k \in DOMAIN name_log : name_log[k].calls = 1)
  /\ [](DOMAIN name_log = DOMAIN demangled_names_hash)
  /\ [][\A k \in DOMAIN demangled_names_hash :
          /\ k \in DOMAIN demangled_names_hash'
          /\ demangled_names_hash'[k] = demangled_names_hash[k]]_vars
  /\ []((res.op = "symbol_set_names" /\ CallKey # NoName) =>
          /\ res.val.name = name_log[CallKey].name
          /\ res.val.demangled = name_log[CallKey].demangled)

\* A C++ symbol was given the mangled name Zf when the cache already held
\* that key: it got the demangled name f of the first call, and the
\* demangler has run once for the key.
C15_Witness ==
  /\ res.op = "symbol_set_names"
  /\ res.args.cached
  /\ res.args.language = "language_cplus"
  /\ res.args.linkage_name = <<"Z", "f">>
  /\ res.val = [name |-> <<"Z", "f">>, demangled |-> <<"f">>, language |-> "language_cplus"]
  /\ name_log[<<"Z", "f">>].calls = 1
  /\ JAVA_PREFIX \o <<"Z", "f">> \in DOMAIN demangled_names_hash

\* What symbol_find_demangled_name makes of a symbol of unknown language
\* called n: the first demangling that succeeds among the given ones fixes
\* language and demangled name; if none does the name stays raw and the
\* language unresolved.
ResolvedAs(v, n, java) ==
  IF objc_demangle(n) # NoName
  THEN v = [name |-> n, demangled |-> objc_demangle(n), language |-> "language_objc"]
  ELSE IF cplus_demangle(n) # NoName
  THEN v = [name |-> n, demangled |-> cplus_demangle(n), language |-> "language_cplus"]
  ELSE IF java /\ cplus_demangle_java(n) # NoName
  THEN v = [name |-> n, demangled |-> cplus_demangle_java(n), language |-> "language_java"]
  ELSE /\ v.name = n
       /\ v.demangled = NoName
       /\ v.language \in {"language_unknown", "language_auto"}

\* C16 as stated: every symbol_set_names call for a symbol of unknown
\* language, whether or not the linkage name is already cached, leaves the
\* symbol with the language and demangled name of the first of the
\* Objective-C, C++ and C++-with-Java demanglings that succeeds, and with
\* the raw name, no demangled name and an unresolved language if all fail.
C16_LanguageResolvedOnEveryCall ==
  (res.op = "symbol_set_names" /\ res.args.language = "language_unknown")
    => ResolvedAs(res.val, res.args.linkage_name, TRUE)

\* C16: language resolution in symbol_set_names happens when the cache
\* entry is created.  A call for a symbol of unknown language whose key is
\* not cached yet tries the Objective-C and then the C++ demangling; the
\* first success fixes the symbol's language and demangled name, and if
\* both fail the name stays raw, without demangled name, the language
\* unresolved (language_auto).  A call whose key is cached gives the symbol
\* the cached demangled name, whichever call stored it, and leaves the
\* symbol's language as it was passed in.  The Java option is tried only
\* for symbols passed in as Java.
C16_LanguageResolvedOnInsertion ==
  /\ (res.op = "symbol_set_names" /\ res.args.language = "language_unknown") =>
        IF ~res.args.cached
        THEN /\ ResolvedAs(res.val, res.args.linkage_name, FALSE)
             /\ res.val.language # "language_unknown"
        ELSE res.val = [name |-> res.args.linkage_name,
                        demangled |-> name_log[res.args.linkage_name].demangled,
                        language |-> "language_unknown"]
  /\ (res.op = "symbol_set_names" /\ res.args.language = "language_java"
      /\ ~res.args.cached) =>
        res.val = [name |-> res.args.linkage_name,
                   demangled |-> cplus_demangle_java(res.args.linkage_name),
                   language |-> "language_java"]

\* A symbol of unknown language was given the C++ mangled name Zf after
\* another symbol had put that name into the cache: it has the demangled
\* name f and its language is still unknown.
C16_Witness ==
  /\ res.op = "symbol_set_names"
  /\ res.args.language = "language_unknown"
  /\ res.args.linkage_name = <<"Z", "f">>
  /\ res.args.cached
  /\ res.val = [name |-> <<"Z", "f">>, demangled |-> <<"f">>,
                language |-> "language_unknown"]

-----------------------------------------------------------------------------
(* The order of a search result.                                           *)

\* Where a debug match belongs: the position of its table among the primary
\* symtabs of catalog state s, then 1 for the global and 2 for the static
\* block.
GroupOf(s, e) ==
  <<IndexOf(PrimaryOnly(s.symtabs), <<e.symbol[1], 1>>),
    IF e.block = GLOBAL_BLOCK THEN 1 ELSE 2>>

\* SYMBOL_PRINT_NAME of a debug match, with demangling on.
PrintName(e) == symbol_natural_name(SymRec(e.symbol))

\* Result list out, returned in catalog state s, is in search order.
InSearchOrder(s, out) ==
  \A i, j \in 1..Len(out) :
     i < j =>
       /\ out[i].symbol = NoSym => out[j].symbol = NoSym
       /\ (out[i].symbol = NoSym /\ out[j].symbol = NoSym) =>
             out[i].msymbol < out[j].msymbol
       /\ (out[i].symbol # NoSym /\ out[j].symbol # NoSym) =>
             /\ out[i].block = out[i].symbol[2]
             /\ GroupOf(s, out[i])[1] <= GroupOf(s, out[j])[1]
             /\ GroupOf(s, out[i])[1] = GroupOf(s, out[j])[1] =>
                  GroupOf(s, out[i])[2] <= GroupOf(s, out[j])[2]
             /\ GroupOf(s, out[i]) = GroupOf(s, out[j]) =>
                  ~NameLess(PrintName(out[j]), PrintName(out[i]))

\* C17: search result order.  From every reachable catalog state, for every
\* pattern, kind and file filter, the list search_symbols returns holds the
\* debug matches first, table by table in catalog order, for each table the
\* matches of the global block and then those of the static block, each
\* block's matches ascending by print name; the minimal-symbol matches
\* follow all of them in the order of the minimal symbol table.
C17_SearchResultOrder ==
  \A regexp \in SearchPatterns, kind \in Kinds, files \in FileSets :
     LET a == search_symbols(St, regexp, kind, files, 0)
     IN a.err = "" => InSearchOrder(a.st, a.out)

\* A function search without pattern on the fresh catalog listed b.c's az
\* and zb, then a.c's globals b and z, then its statics e and h, each run
\* against dictionary order, and after them the bare msymbols pz and p.
C17_Witness ==
  /\ res.op = "search_symbols"
  /\ res.err = ""
  /\ res.args.kind = "FUNCTIONS_DOMAIN"
  /\ res.args.regexp = NoName
  /\ Len(res.val) = 8
  /\ [i \in 1..6 |-> res.val[i].symbol]
       = <<<<2, "G", 2>>, <<2, "G", 1>>, <<1, "G", 2>>, <<1, "G", 1>>,
           <<1, "S", 3>>, <<1, "S", 1>>>>
  /\ res.val[7].msymbol = 4
  /\ res.val[8].msymbol = 6
  /\ symtabs = <<<<2, 1>>, <<1, 1>>, <<1, 2>>>>

-----------------------------------------------------------------------------
(* Demangled queries.                                                      *)

\* A C++ or Java program: the two-file program whose file b defines, next
\* to h, a global variable with linkage name Zf and source-level name f.
Mangled(case_off, language) ==
  [TwoFiles(<<"z">>, <<"Z", "f">>, case_off, language, <<>>)
     EXCEPT !.pst[2].globals =
              SortPsyms(<<Func(<<"h">>, 2),
                          MkSym(<<"Z", "f">>, "VAR_DOMAIN", "LOC_STATIC", language,
                                0, FALSE, IntType)>>),
            !.unit[2].blocks["G"].dict =
              <<Func(<<"h">>, 2),
                MkSym(<<"Z", "f">>, "VAR_DOMAIN", "LOC_STATIC", language,
                      0, FALSE, IntType)>>]

MangledQueries == {<<"Z", "f">>, <<"Z", "g">>, <<"f">>, <<"z", "f">>, <<"F">>}

InitDemangle ==
  \E case_off \in BOOLEAN, language \in {"language_cplus", "language_java"} :
     Fresh(Mangled(case_off, language))

LookupMangled == LookupIn(MangledQueries, {"VAR_DOMAIN"}, {FALSE})

NextDemangle ==
  \/ Convert
  \/ LookupMangled

SpecDemangle == InitDemangle /\ [][NextDemangle]_vars

\* The name a C++ or Java lookup of name is said to compare against.
SourceLevelName(name) ==
  IF cplus_demangle(name) # NoName THEN cplus_demangle(name) ELSE name

\* C18: demangled queries.  In a C++ or Java program, whatever the case
\* sensitivity mode, the name lookup_symbol_in_language hands to the block
\* and index lookups is the demangled query when the query demangles, and
\* the query as typed when it does not.
C18_DemangledNameLookedUp ==
  cat.language \in {"language_cplus", "language_java"} =>
    \A name \in MangledQueries :
       modified_name(name, cat.language) = SourceLevelName(name)

\* With case sensitivity on the source-level name is looked up, and a query
\* by linkage name finds the symbol; with case sensitivity off it is the
\* lower-cased query as typed that is looked up, demangled or not, and the
\* query by linkage name finds nothing.
DemangledUnlessCaseOff ==
  \A name \in MangledQueries :
     /\ ~cat.case_off =>
          /\ modified_name(name, cat.language) = SourceLevelName(name)
          /\ lookup_symbol_in_language(St, <<"Z", "f">>, NoBlock, "VAR_DOMAIN",
                                       cat.language, FALSE).val = <<2, "G", 2>>
     /\ cat.case_off =>
          /\ modified_name(name, cat.language) = LowerName(name)
          /\ lookup_symbol_in_language(St, <<"Z", "f">>, NoBlock, "VAR_DOMAIN",
                                       cat.language, FALSE).val = NoSym
     /\ mangled_name(name, cat.language)
          = IF cplus_demangle(name) # NoName THEN name ELSE NoName

-----------------------------------------------------------------------------
(* Line-less results of the address -> line lookup.                        *)

\* C19: line-less results.  Whenever find_pc_sect_line (a, section,
\* notcurrent) returns line 0, for either value of notcurrent, the result
\* has no symtab and its pc is the address a the caller passed in.
C19_LineZeroEchoesAddress ==
  \A a \in 0..MaxPc, section \in Sections, notcurrent \in BOOLEAN :
     LET v == find_pc_sect_line(St, a, section, notcurrent).val
     IN v.line = 0 => (v.symtab = NoSymtab /\ v.pc = a)

\* What the line-less results do carry: no symtab and no end; the address
\* passed when no table owns the address looked at; the address looked at,
\* which is one below the address passed when notcurrent is set, when a
\* table owns it but has no line for it; for an address in a redirected
\* trampoline, the result for the real function.
LineZeroCarriesAddressLookedAt ==
  \A a \in 0..MaxPc, section \in Sections, notcurrent \in BOOLEAN :
     LET pc == IF notcurrent THEN a - 1 ELSE a
         v == find_pc_sect_line(St, a, section, notcurrent).val
     IN v.line = 0 =>
          /\ v.symtab = NoSymtab
          /\ v.end_ = 0
          /\ IF RealPc(pc) # pc
             THEN v = find_pc_sect_line(St, RealPc(pc), 0, FALSE).val
             ELSE IF find_pc_sect_symtab(St, pc, section).val = NoSymtab
             THEN v.pc = a
             ELSE v.pc = pc

\* A lookup with notcurrent set came back line-less from an owned address.
LineZeroBelowAddress ==
  /\ res.op = "find_pc_sect_line"
  /\ res.args.notcurrent
  /\ res.val.line = 0
  /\ res.val.pc = res.args.pc - 1

-----------------------------------------------------------------------------
(* Prologue test.                                                          *)

\* The largest number of addresses the prologue analyzer skips.
MaxSkip == 2

\* find_pc_line (pc, notcurrent) with no overlay mapped: find_pc_overlay
\* answers no section.
find_pc_line(s, pc, notcurrent) == find_pc_sect_line(s, pc, 0, notcurrent)

\* gdbarch_skip_prologue (gdbarch, addr): the per-architecture analyzer
\* reads the instructions at addr and answers the address skip further on.
gdbarch_skip_prologue(addr, skip) == addr + skip

\* What find_pc_partial_function (pc, NULL, &func_addr, &func_end) can
\* answer: no function, or the extent of a function around pc.
PartialFunctions(pc) ==
  {[found |-> FALSE, func_addr |-> 0, func_end |-> 0]}
    \cup {[found |-> TRUE, func_addr |-> lo, func_end |-> hi] :
            lo \in 0..pc, hi \in (pc + 1)..(MaxPc + 1)}

\* A variant that answers TRUE whenever it has no line for the function.
in_prologue_conservative(s, pc, func_start, fn, skip) ==
  IF ~fn.found THEN [st |-> s, val |-> TRUE]
  ELSE With(find_pc_line(s, fn.func_addr, FALSE),
         LAMBDA r :
           IF \/ r.val.line = 0
              \/ r.val.end_ <= fn.func_addr
              \/ fn.func_end <= r.val.end_
           THEN [st |-> r.st, val |-> TRUE]
           ELSE [st |-> r.st, val |-> fn.func_addr <= pc /\ pc < r.val.end_])

\* in_prologue (pc, func_start): [st, val].  fn is the answer of
\* find_pc_partial_function for pc, skip what the analyzer skips.
in_prologue(s, pc, func_start, fn, skip) ==
  IF ~fn.found
  THEN IF func_start = 0 THEN [st |-> s, val |-> TRUE]
       ELSE [st |-> s,
             val |-> func_start <= pc /\ pc < gdbarch_skip_prologue(func_start, skip)]
  ELSE With(find_pc_line(s, fn.func_addr, FALSE),
         LAMBDA r :
           IF \/ r.val.line = 0
              \/ r.val.end_ <= fn.func_addr
              \/ fn.func_end <= r.val.end_
           THEN [st |-> r.st,
                 val |-> /\ fn.func_addr <= pc
                         /\ pc < gdbarch_skip_prologue(fn.func_addr, skip)]
           ELSE [st |-> r.st, val |-> fn.func_addr <= pc /\ pc < r.val.end_])

\* The caller's func_start is any address, 0 for none, when the function
\* is unknown; it is not read when the function is known, and is then
\* taken to be the function's entry.
FuncStarts(fn) == IF fn.found THEN {fn.func_addr} ELSE 0..MaxPc

InPrologue ==
  \E pc \in 0..MaxPc, skip \in 0..MaxSkip :
     \E fn \in PartialFunctions(pc) :
        \E func_start \in FuncStarts(fn) :
           LET r == in_prologue(St, pc, func_start, fn, skip)
           IN Commit(r.st, "in_prologue",
                     [pc |-> pc, func_start |-> func_start, fn |-> fn, skip |-> skip],
                     r.val, "")

\* The two-unit program without header lines and trampolines; the line
\* table of a.c has a line at the entry of f, or has none before address 1.
InitPrologue ==
  \E lt \in {<<Entry(1, 0), Entry(2, 1), Entry(0, 2)>>,
              <<Entry(2, 1), Entry(0, 2)>>} :
     Fresh(LineFiles(lt, <<>>, <<"b">>, FALSE))

NextPrologue ==
  \/ Convert
  \/ InPrologue

SpecPrologue == InitPrologue /\ [][NextPrologue]_vars

\* The line found at the entry of function fn is no evidence: there is
\* none, or it does not end inside the function.
NoEntryLine(fn) ==
  LET sal == find_pc_line(St, fn.func_addr, FALSE).val
  IN sal.line = 0 \/ sal.end_ <= fn.func_addr \/ fn.func_end <= sal.end_

\* C20 as written: in_prologue (pc, func_start) answers true whenever the
\* function around pc is unknown or the line lookup at its entry yields
\* line 0 or an end outside the function.
C20_TrueWithoutLineEvidence ==
  \A pc \in 0..MaxPc, skip \in 0..MaxSkip :
     \A fn \in PartialFunctions(pc) : \A func_start \in FuncStarts(fn) :
        (~fn.found \/ NoEntryLine(fn)) => in_prologue(St, pc, func_start, fn, skip).val

\* C20: prologue test without line evidence.  in_prologue answers true
\* outright only when the function around pc is unknown and func_start is
\* 0.  When the function is unknown and func_start is given, and when the
\* function is known but the line at its entry is line 0 or ends outside
\* the function, the answer is the analyzer's: true exactly when pc lies
\* from the start (func_start, respectively the function's entry) up to
\* but excluding the address gdbarch_skip_prologue returns for that start.
C20_AnalyzerDecidesWithoutLineEvidence ==
  \A pc \in 0..MaxPc, skip \in 0..MaxSkip :
     \A fn \in PartialFunctions(pc) : \A func_start \in FuncStarts(fn) :
        LET val == in_prologue(St, pc, func_start, fn, skip).val
        IN /\ (~fn.found /\ func_start = 0) => val
           /\ (~fn.found /\ func_start # 0) =>
                 (val <=> (func_start <= pc /\ pc < func_start + skip))
           /\ (fn.found /\ NoEntryLine(fn)) =>
                 (val <=> pc < fn.func_addr + skip)

\* in_prologue answered false for an address in a function whose entry has
\* no line: the analyzer put the end of the prologue at or before it.
C20_Witness ==
  /\ res.op = "in_prologue"
  /\ res.args.fn.found
  /\ find_pc_line(St, res.args.fn.func_addr, FALSE).val.line = 0
  /\ res.args.skip > 0
  /\ res.args.pc >= res.args.fn.func_addr + res.args.skip
  /\ res.val = FALSE

-----------------------------------------------------------------------------
(* Completion and the catalog.                                             *)

\* C21: completion leaves the catalog unchanged.  From every reachable
\* catalog state, for every text, selected block and word start at either
\* end of the text, a call of
\* default_make_symbol_completion_list, run to its end or cancelled at any
\* of its QUIT polls, leaves the partial symtabs' readin flags, their
\* symtab pointers and the list of symtabs as it found them.
C21_CompletionLeavesCatalog ==
  \A text \in Texts, sel \in Contexts, cancel \in 0..(4 * MaxCancel) :
     \A word \in {0, Len(text)} :
        default_make_symbol_completion_list(St, text, word, sel, cancel).st = St

\* A completion was cancelled in a catalog with a.c read in and b.c not,
\* and b.c is still not read in.
C21_Witness ==
  /\ res.op = "default_make_symbol_completion_list"
  /\ res.err = "quit"
  /\ SymTextStart(res.args.text) >= 0
  /\ Expanded(1)
  /\ Unexpanded(2)

-----------------------------------------------------------------------------
(* Parameters and locals of one name in a block.                           *)

\* A struct tag named z as language records it.
Tag(language) ==
  MkSym(<<"z">>, "STRUCT_DOMAIN", "LOC_TYPEDEF", language, 0, FALSE, StructType(<<>>))

\* The symbols named z a block may hold: a parameter, a local, and a struct
\* tag of a C and of a C++ unit.
SameName == {Arg(<<"z">>), Var(<<"z">>), Tag("language_c"), Tag("language_cplus")}

\* The two-file program with dict as the dictionary both of the block of
\* function f and of the block nested in it.
Shadowing(dict) ==
  [TwoFiles(<<"z">>, <<"z">>, FALSE, "language_c", <<>>)
     EXCEPT !.unit[1].blocks["F"].dict = dict,
            !.unit[1].blocks["L"].dict = dict]

InitBlock ==
  \E d1 \in SameName, d2 \in SameName, d3 \in SameName :
     Fresh(Shadowing(<<d1, d2, d3>>))

\* lookup_block_symbol (block, name, NULL, domain) on a block read in.
LookupBlockSymbol ==
  \E block \in LiveBlocks, name \in {<<"z">>, <<"b">>}, domain \in Domains :
     Commit(St, "lookup_block_symbol",
            [block |-> block, name |-> name, domain |-> domain],
            lookup_block_symbol(block, name, NoName, domain), "")

NextBlock ==
  \/ Convert
  \/ LookupBlockSymbol

SpecBlock == InitBlock /\ [][NextBlock]_vars

\* The positions of block's dictionary that hold a symbol of that name
\* satisfying a query for domain.
Candidates(block, name, domain) ==
  {i \in 1..Len(BLOCK_DICT(block)) :
     /\ symbol_search_name(BLOCK_DICT(block)[i]) = name
     /\ symbol_matches_domain(BLOCK_DICT(block)[i].language,
                              BLOCK_DICT(block)[i].domain, domain)}

\* C22: parameters and locals of one name.  For every block read in, name
\* and domain, lookup_block_symbol returns nothing when no symbol of the
\* block matches; on a function's block the first matching symbol in
\* dictionary order that is not a parameter, and a matching parameter only
\* when all matches are parameters; on any other block the first match.
C22_NonParameterFirst ==
  \A block \in LiveBlocks, name \in {<<"z">>, <<"b">>}, domain \in Domains :
     LET M == Candidates(block, name, domain)
         NonArg == {i \in M : ~BLOCK_DICT(block)[i].is_arg}
         r == lookup_block_symbol(block, name, NoName, domain)
     IN IF M = {} THEN r = NoSym
        ELSE /\ r[1] = block[1] /\ r[2] = block[2] /\ r[3] \in M
             /\ IF ~BLOCK_FUNCTION(block) THEN \A i \in M : r[3] <= i
                ELSE IF NonArg # {} THEN r[3] \in NonArg /\ \A i \in NonArg : r[3] <= i
                ELSE BLOCK_DICT(block)[r[3]].is_arg

\* In the block of f, whose dictionary lists the parameter z ahead of the
\* local z, the lookup of z returned the local.
C22_Witness ==
  /\ res.op = "lookup_block_symbol"
  /\ res.args.block = <<1, "F">>
  /\ res.args.name = <<"z">>
  /\ res.args.domain = "VAR_DOMAIN"
  /\ BLOCK_DICT(<<1, "F">>)[1] = Arg(<<"z">>)
  /\ BLOCK_DICT(<<1, "F">>)[2] = Arg(<<"z">>)
  /\ BLOCK_DICT(<<1, "F">>)[3] = Var(<<"z">>)
  /\ res.val = <<1, "F", 3>>

-----------------------------------------------------------------------------
(* Domains.                                                                *)

\* domain_enum.
AllDomains == {"UNDEF_DOMAIN", "VAR_DOMAIN", "STRUCT_DOMAIN", "LABEL_DOMAIN",
               "VARIABLES_DOMAIN", "FUNCTIONS_DOMAIN", "TYPES_DOMAIN",
               "METHODS_DOMAIN"}

\* symbol_matches_domain (symbol_language, symbol_domain, domain) on its own.
SymbolMatchesDomain ==
  \E symbol_language \in SymbolLanguages, symbol_domain \in AllDomains,
     domain \in AllDomains :
        Commit(St, "symbol_matches_domain",
               [symbol_language |-> symbol_language, symbol_domain |-> symbol_domain,
                domain |-> domain],
               symbol_matches_domain(symbol_language, symbol_domain, domain), "")

InitDomain == Init

NextDomain ==
  \/ SymbolMatchesDomain

SpecDomain == InitDomain /\ [][NextDomain]_vars

\* The languages in which a struct, class or type declaration also
\* declares a name in the variable domain.
TagIsName == {"language_cplus", "language_java", "language_ada"}

\* C23: the struct/variable duality.  A STRUCT_DOMAIN symbol of a C++, Java
\* or Ada unit satisfies a STRUCT_DOMAIN and a VAR_DOMAIN query; in every
\* other case, another language or a symbol of another domain, the symbol
\* satisfies a query exactly when its domain is the query's, so that a
\* VAR_DOMAIN symbol never satisfies a STRUCT_DOMAIN query.
C23_StructSatisfiesVarQuery ==
  /\ \A language \in SymbolLanguages, symbol_domain \in AllDomains, domain \in AllDomains :
        /\ (language \in TagIsName /\ symbol_domain = "STRUCT_DOMAIN"
              /\ domain \in {"STRUCT_DOMAIN", "VAR_DOMAIN"})
             => symbol_matches_domain(language, symbol_domain, domain)
        /\ (language \notin TagIsName \/ symbol_domain # "STRUCT_DOMAIN")
             => (symbol_matches_domain(language, symbol_domain, domain)
                   <=> symbol_domain = domain)
        /\ ~symbol_matches_domain(language, "VAR_DOMAIN", "STRUCT_DOMAIN")
  /\ res.op = "symbol_matches_domain" =>
        (res.val <=>
           \/ res.args.symbol_domain = res.args.domain
           \/ /\ res.args.symbol_language \in TagIsName
              /\ res.args.symbol_domain = "STRUCT_DOMAIN"
              /\ res.args.domain = "VAR_DOMAIN")

\* A Java class tag was found to satisfy a query in the variable domain.
C23_Witness ==
  /\ res.op = "symbol_matches_domain"
  /\ res.args.symbol_language = "language_java"
  /\ res.args.symbol_domain = "STRUCT_DOMAIN"
  /\ res.args.domain = "VAR_DOMAIN"
  /\ res.val = TRUE

-----------------------------------------------------------------------------
(* Which line-table entry governs an address.                              *)

\* Line tables of a.c whose addresses are not ascending.
Unordered ==
  {<<Entry(1, 1), Entry(2, 0), Entry(0, 2)>>,
   <<Entry(2, 1), Entry(0, 2), Entry(1, 0)>>}

\* A line table of a.c whose end marker stands inside the unit.
EndsEarly == {<<Entry(1, 0), Entry(0, 1)>>}

InitOrder ==
  \E lt \in LineTables \cup Unordered \cup EndsEarly, lh \in HeaderTables :
     Fresh(LineFiles(lt, lh, <<"b">>, FALSE))

NextOrder ==
  \/ Convert
  \/ FindPcLine

SpecOrder == InitOrder /\ [][NextOrder]_vars

\* The symtabs find_pc_sect_line scans for pc in catalog state s: those
\* following the owning symtab t in the list that share its blockvector.
RECURSIVE SharingFrom(_, _, _)
SharingFrom(list, i, bv) ==
  IF i > Len(list) \/ BLOCKVECTOR(list[i]) # bv THEN <<>>
  ELSE <<list[i]>> \o SharingFrom(list, i + 1, bv)

\* The entry of line table l with the greatest address not above pc, the
\* last one of them when several start there; 0 when there is none.
GreatestAtOrBelow(l, pc) ==
  LET C == {i \in 1..Len(l) : l[i].pc <= pc}
  IN IF C = {} THEN 0
     ELSE CHOOSE i \in C : \A j \in C :
            l[j].pc < l[i].pc \/ (l[j].pc = l[i].pc /\ j <= i)

\* Among the tables tabs, each with its entry k[n] taken for the address
\* (0: none), sal reports the entry with a line that has the greatest
\* address, the earlier table's when two are equal; line 0 without one.
ReportsBestOf(sal, tabs, k) ==
  LET T == {n \in 1..Len(tabs) : k[n] > 0 /\ LINETABLE(tabs[n])[k[n]].line # 0}
  IN IF T = {} THEN sal.line = 0
     ELSE \E n \in T :
            /\ sal.symtab = tabs[n]
            /\ sal.line = LINETABLE(tabs[n])[k[n]].line
            /\ sal.pc = LINETABLE(tabs[n])[k[n]].pc
            /\ \A m \in T :
                  \/ LINETABLE(tabs[m])[k[m]].pc < sal.pc
                  \/ (LINETABLE(tabs[m])[k[m]].pc = sal.pc /\ n <= m)

\* C24 as written: over the tables sharing the owning unit's blockvector,
\* find_pc_sect_line (a, section, 0) reports the entry with the greatest
\* address not above a, an entry of line 0 counting for nothing, whatever
\* the order of the entries in the tables.
C24_GreatestStartNotAbovePc ==
  \A a \in 0..MaxPc :
     LET r == find_pc_sect_line(St, a, 0, FALSE)
         t == find_pc_sect_symtab(St, a, 0).val
         tabs == SharingFrom(r.st.symtabs, IndexOf(r.st.symtabs, t), BLOCKVECTOR(t))
     IN t # NoSymtab =>
          ReportsBestOf(r.val, tabs,
                        [n \in 1..Len(tabs) |-> GreatestAtOrBelow(LINETABLE(tabs[n]), a)])

\* Where the scan of line table l for pc stops: at the last entry ahead of
\* the first one that starts above pc; 0 when the first entry does.
Governing(l, pc) ==
  LET above == {i \in 1..Len(l) : l[i].pc > pc}
  IN IF above = {} THEN Len(l)
     ELSE (CHOOSE i \in above : \A j \in above : i <= j) - 1

Ascending(l) == \A i, j \in 1..Len(l) : i < j => l[i].pc <= l[j].pc

\* C24: the governing entry.  In each table sharing the owning unit's
\* blockvector find_pc_sect_line (a, section, 0) takes the entry standing
\* just ahead of the first entry that starts above a, and drops it when its
\* line is 0; the result is the entry taken with the greatest address, the
\* one of the earlier table when two are equal, and line 0 when no table
\* has one.  In a table in ascending address order the entry taken is the
\* last of those with the greatest address not above a.
C24_LastEntryBeforeFirstAbove ==
  \A a \in 0..MaxPc :
     LET r == find_pc_sect_line(St, a, 0, FALSE)
         t == find_pc_sect_symtab(St, a, 0).val
         tabs == SharingFrom(r.st.symtabs, IndexOf(r.st.symtabs, t), BLOCKVECTOR(t))
         k == [n \in 1..Len(tabs) |-> Governing(LINETABLE(tabs[n]), a)]
     IN t # NoSymtab =>
          /\ ReportsBestOf(r.val, tabs, k)
          /\ \A n \in 1..Len(tabs) :
                Ascending(LINETABLE(tabs[n])) =>
                   k[n] = GreatestAtOrBelow(LINETABLE(tabs[n]), a)

\* The lookup of address 1 in a table that lists address 1 ahead of address
\* 0 came back with the entry of address 0.
C24_Witness ==
  /\ res.op = "find_pc_sect_line"
  /\ res.args.pc = 1
  /\ ~res.args.notcurrent
  /\ LINETABLE(<<1, 1>>) = <<Entry(1, 1), Entry(2, 0), Entry(0, 2)>>
  /\ LINETABLE(<<1, 2>>) = <<>>
  /\ res.val.symtab = <<1, 1>>
  /\ res.val.line = 2
  /\ res.val.pc = 0


-----------------------------------------------------------------------------
(* expand_line_sal: one location per enclosing block.                      *)

\* Unit a.c at [0,3) and a second unit at [3,4) whose file name is second
\* (a.c again when the compiler split that file in two).  lt is the line
\* table of a.c; with inner set, the function at [0,3) has a lexical block
\* at [1,2).
SalFiles(lt, second, inner) ==
  [pst |-> <<[filename |-> <<"a">>, textlow |-> 0, texthigh |-> 3,
              globals |-> <<Func(<<"f">>, 0)>>, statics |-> <<>>, unit |-> 1],
             [filename |-> second, textlow |-> 3, texthigh |-> 4,
              globals |-> <<Func(<<"h">>, 3)>>, statics |-> <<>>, unit |-> 2]>>,
   unit |-> <<[symtabs |-> <<[filename |-> <<"a">>, primary |-> TRUE, linetable |-> lt]>>,
               blocks |-> [n \in {"G", "S", "F"} \cup (IF inner THEN {"L"} ELSE {}) |->
                 CASE n = "G" -> Block("", FALSE, <<Func(<<"f">>, 0)>>, 0, 3)
                   [] n = "S" -> Block("G", FALSE, <<>>, 0, 3)
                   [] n = "F" -> Block("S", TRUE, <<>>, 0, 3)
                   [] n = "L" -> Block("F", FALSE, <<>>, 1, 2)]],
              [symtabs |-> <<[filename |-> second, primary |-> TRUE,
                              linetable |-> <<Entry(1, 3), Entry(0, 4)>>]>>,
               blocks |-> [n \in {"G", "S", "H"} |->
                 CASE n = "G" -> Block("", FALSE, <<Func(<<"h">>, 3)>>, 3, 4)
                   [] n = "S" -> Block("G", FALSE, <<>>, 3, 4)
                   [] n = "H" -> Block("S", TRUE, <<>>, 3, 4)]]>>,
   msyms |-> <<[name |-> <<"f">>, addr |-> 0, type |-> "mst_text", sect |-> 1],
               [name |-> <<"h">>, addr |-> 3, type |-> "mst_text", sect |-> 1]>>,
   reordered |-> FALSE, addrmap |-> <<>>, overlay_debugging |-> FALSE,
   case_off |-> FALSE, language |-> "language_c"]

\* The line tables of a.c tried: line 1 at three addresses of the function;
\* line 2 at two addresses with line 1 absent; line 1 at addresses no unit
\* covers; line 1 at two addresses with line 2 between them.
SalTables ==
  {<<Entry(1, 0), Entry(1, 1), Entry(1, 2), Entry(0, 3)>>,
   <<Entry(2, 0), Entry(2, 2), Entry(0, 3)>>,
   <<Entry(1, 0), Entry(2, 1), Entry(1, 4), Entry(1, 5)>>,
   <<Entry(1, 0), Entry(2, 1), Entry(1, 2), Entry(0, 3)>>}

InitSal ==
  \E lt \in SalTables, second \in {<<"a">>, <<"b">>}, inner \in BOOLEAN :
     Fresh(SalFiles(lt, second, inner))

NextSal ==
  \/ Convert
  \/ ExpandLineSal

SpecSal == InitSal /\ [][NextSal]_vars

\* The candidates expand_line_sal collects for (symtab, line) before it
\* filters them, with the block of each: [sals, blocks].
SalCandidates(symtab, line) ==
  LET s1  == ReadInByFilename(St, 1, Filename(symtab))
      a   == SalSymtabs(s1.symtabs, Filename(symtab), line,
                        [exact |-> FALSE, has_best |-> FALSE, best_line |-> 0,
                         best_pc |-> 0, best_symtab |-> NoSymtab, sals |-> <<>>])
      ret == IF ~a.exact /\ a.has_best
             THEN Append(a.sals, Sal(a.best_symtab, line, a.best_pc, 0, 0))
             ELSE a.sals
  IN [sals |-> ret, blocks |-> SalBlocks(s1, ret, Len(ret)).blocks]

\* The candidates that are the first of their block, or have no block, in
\* the order found.
RECURSIVE FirstOfBlock(_, _)
FirstOfBlock(c, i) ==
  IF i > Len(c.sals) THEN <<>>
  ELSE (IF c.blocks[i] # NoBlock /\ \E k \in 1..(i - 1) : c.blocks[k] = c.blocks[i]
        THEN <<>> ELSE <<c.sals[i]>>)
       \o FirstOfBlock(c, i + 1)

\* C25: in the result of expand_line_sal no two locations have the same
\* non-null innermost enclosing block, the location kept for a block is the
\* first candidate found for it (candidates without a block are all kept),
\* and the count returned equals the number of locations kept, for any
\* number of candidates sharing a block.
C25_OnePerBlock ==
  \A symtab \in LiveSymtabs, line \in 1..MaxLine :
     LET r == expand_line_sal(St, Sal(symtab, line, 0, 0, 0))
         c == SalCandidates(symtab, line)
         blk(i) == block_for_pc(r.st, r.val[i].pc).val
     IN /\ \A i, j \in 1..Len(r.val) :
             i < j /\ blk(i) # NoBlock => blk(i) # blk(j)
        /\ r.val = FirstOfBlock(c, 1)
        /\ r.nelts = Len(r.val)

\* expand_line_sal has reduced three candidates of one block to the first.
C25_Witness ==
  /\ res.op = "expand_line_sal"
  /\ Len(res.val) = 1
  /\ \E c \in {SalCandidates(res.args.symtab, res.args.line)} :
        /\ Len(c.sals) = 3
        /\ c.blocks[1] # NoBlock
        /\ c.blocks[2] = c.blocks[1]
        /\ c.blocks[3] = c.blocks[1]
        /\ res.val[1] = c.sals[1]
        /\ res.args.nelts = 1

-----------------------------------------------------------------------------
(* block_found after a lookup.                                             *)

\* The block whose dictionary holds symbol y.
SymbolBlock(y) == <<y[1], y[2]>>

\* C26: after every lookup_symbol_in_language call that returns a symbol, in
\* any catalog state, block_found is the block whose dictionary contains
\* the returned symbol.
C26_BlockFoundHoldsSymbol ==
  \A name \in QueryNames, block \in Contexts, domain \in Domains :
     LET r == lookup_symbol_in_language(St, name, block, domain, cat.language, FALSE)
     IN r.val # NoSym => r.st.block_found = SymbolBlock(r.val)

\* What the code does: a symbol found without reading in a partial symtab
\* leaves block_found at its block; a symbol found by reading one in leaves
\* block_found as it was before the call.
BlockFoundUnlessReadIn ==
  \A name \in QueryNames, block \in Contexts, domain \in Domains :
     LET r == lookup_symbol_in_language(St, name, block, domain, cat.language, FALSE)
     IN r.val # NoSym =>
          r.st.block_found = IF r.st.readin = St.readin THEN SymbolBlock(r.val)
                             ELSE St.block_found

\* A lookup has returned a symbol of a unit it read in, and block_found is
\* still the block of another unit that an earlier lookup left there.
StaleBlockFound ==
  /\ res.op = "lookup_symbol"
  /\ res.err = ""
  /\ res.val.sym # NoSym
  /\ block_found # NoBlock
  /\ block_found[1] # res.val.sym[1]

-----------------------------------------------------------------------------
(* lookup_partial_symbol on the sorted global partition.                   *)

MaxPsyms == 3

\* The global partial symbols tried: a C variable f, a C++ variable whose
\* linkage name Zf demangles to f, a C struct tag f, a C++ function whose
\* demangled name f( carries an argument list, the C variables a and h, and
\* a Java variable whose linkage name Zh demangles to h.
PsymEntries ==
  {Var(<<"f">>),
   MkSym(<<"Z", "f">>, "VAR_DOMAIN", "LOC_STATIC", "language_cplus", 0, FALSE, IntType),
   MkSym(<<"f">>, "STRUCT_DOMAIN", "LOC_TYPEDEF", "language_c", 0, FALSE, StructType(<<>>)),
   MkSym(<<"Z", "f", "(">>, "VAR_DOMAIN", "LOC_BLOCK", "language_cplus", 0, FALSE, IntType),
   Var(<<"a">>),
   Var(<<"h">>),
   MkSym(<<"Z", "h">>, "VAR_DOMAIN", "LOC_STATIC", "language_java", 0, FALSE, IntType)}

\* Every order sort_pst_symbols can leave distinct entries in: ascending by
\* search name, entries of equal search name in any order.
SortedPartitions ==
  {l \in UNION {[1..n -> PsymEntries] : n \in 1..MaxPsyms} :
     /\ \A i, j \in 1..Len(l) : i # j => l[i] # l[j]
     /\ \A i \in 1..(Len(l) - 1) :
           strcmp_iw_ordered(symbol_search_name(l[i]), symbol_search_name(l[i + 1])) <= 0}

\* The two-file program with list as the global partial symbols, and the
\* global symbols, of a.c.
PsymFiles(list) ==
  [TwoFiles(<<"z">>, <<"z">>, FALSE, "language_c", <<>>)
     EXCEPT !.pst[1].globals = list,
            !.unit[1].blocks["G"].dict = list]

\* The (name, linkage_name) pairs callers pass: a source-level name alone,
\* or a mangled name together with the name it demangles to.
PsymQueries ==
  {[name |-> <<"f">>, linkage_name |-> NoName],
   [name |-> <<"a">>, linkage_name |-> NoName],
   [name |-> <<"h">>, linkage_name |-> NoName],
   [name |-> <<"g">>, linkage_name |-> NoName],
   [name |-> <<"f">>, linkage_name |-> <<"Z", "f">>],
   [name |-> <<"h">>, linkage_name |-> <<"Z", "h">>],
   [name |-> <<"a">>, linkage_name |-> <<"Z", "a">>]}

InitPsym == \E list \in SortedPartitions : Fresh(PsymFiles(list))

LookupPartialSymbol ==
  \E q \in PsymQueries, domain \in Domains :
     Commit(St, "lookup_partial_symbol",
            [name |-> q.name, linkage_name |-> q.linkage_name, domain |-> domain],
            lookup_partial_symbol(1, q.name, q.linkage_name, TRUE, domain), "")

NextPsym ==
  \/ Convert
  \/ LookupPartialSymbol

SpecPsym == InitPsym /\ [][NextPsym]_vars

\* The two consistency checks of the binary search on list[bottom..top]:
\* center < top in every round, and top == bottom when the loop ends.
RECURSIVE PsymChecks(_, _, _, _)
PsymChecks(list, name, bottom, top) ==
  IF ~(top > bottom) THEN top = bottom
  ELSE LET center == bottom + ((top - bottom) \div 2)
       IN /\ center < top
          /\ IF strcmp_iw_ordered(symbol_search_name(list[center]), name) >= 0
             THEN PsymChecks(list, name, bottom, center)
             ELSE PsymChecks(list, name, center + 1, top)

\* The earliest entry whose search name does not sort below name, the last
\* entry when all do.
EarliestNotBelow(list, name) ==
  LET C == {i \in 1..Len(list) :
              strcmp_iw_ordered(symbol_search_name(list[i]), name) >= 0}
  IN IF C = {} THEN Len(list) ELSE First(C)

\* What the claim says of one call on the global partition of a.c.
AgreesWithLinearScan(q, domain) ==
  LET list == cat.pst[1].globals
  IN /\ lookup_partial_symbol(1, q.name, q.linkage_name, TRUE, domain)
          = (PsymLinear(list, q.name, q.linkage_name, domain) # 0)
     /\ PsymBinarySearch(list, q.name, 1, Len(list), FALSE).top
          = EarliestNotBelow(list, q.name)
     /\ PsymChecks(list, q.name, 1, Len(list))

\* C27: lookup_partial_symbol on the global partition, sorted by search
\* name, agrees with a plain linear scan: it returns a partial symbol
\* exactly when some entry matches the name (and the linkage name when
\* given) and the domain, the binary search ends on the earliest entry whose
\* name might match, and neither consistency check fails, for every
\* partition length including 1.
C27_AgreesWithLinearScan ==
  \A q \in PsymQueries, domain \in Domains : AgreesWithLinearScan(q, domain)

\* Without a linkage name all of it holds.
AgreesWithoutLinkageName ==
  \A q \in PsymQueries, domain \in Domains :
     q.linkage_name = NoName => AgreesWithLinearScan(q, domain)

\* With a linkage name the call never reports an entry a linear scan would
\* not, and it misses one only when an entry of the same search name and
\* another linkage name stands ahead of every matching entry.
MissesOnlyBehindOtherLinkageName ==
  \A q \in PsymQueries, domain \in Domains :
     LET list == cat.pst[1].globals
         lin  == PsymLinear(list, q.name, q.linkage_name, domain)
         top  == PsymBinarySearch(list, q.name, 1, Len(list), FALSE).top
     IN /\ lookup_partial_symbol(1, q.name, q.linkage_name, TRUE, domain) => lin # 0
        /\ (lin # 0 /\ ~lookup_partial_symbol(1, q.name, q.linkage_name, TRUE, domain)) =>
              /\ q.linkage_name # NoName
              /\ top < lin
              /\ list[top].name # q.linkage_name
              /\ strcmp_iw_ordered(symbol_search_name(list[top]), q.name) = 0

\* A call with a linkage name has returned nothing although the partition
\* holds an entry of that linkage name and domain.
MissedByLinkageName ==
  /\ res.op = "lookup_partial_symbol"
  /\ res.val = FALSE
  /\ res.args.linkage_name # NoName
  /\ PsymLinear(cat.pst[1].globals, res.args.name, res.args.linkage_name,
                res.args.domain) # 0

-----------------------------------------------------------------------------
(* lookup_symtab: the jump back to got_symtab.                             *)

\* The two units of LineFiles, each with a symtab for the header h, and a
\* third partial symtab standing for h as an include file of the unit of
\* partial symtab includer.
Included(lt, includer) ==
  [LineFiles(lt, <<Entry(3, 0)>>, <<"b">>, FALSE)
     EXCEPT !.pst = Append(@, [filename |-> <<"h">>, textlow |-> 0, texthigh |-> 0,
                               globals |-> <<>>, statics |-> <<>>, unit |-> 0,
                               includer |-> includer])]

InitSymtab ==
  \/ \E bad \in {1, 2}, first \in {1, 2} : Fresh(Unreadable(bad, first))
  \/ \E lt \in LineTables, includer \in {1, 2} : Fresh(Included(lt, includer))

NextSymtab ==
  \/ Convert
  \/ LookupSymtab

SpecSymtab == InitSymtab /\ [][NextSymtab]_vars

\* C28: lookup_symtab (name) terminates for every catalog: after a partial
\* symtab is found and its conversion yields no table, the jump back to
\* got_symtab is taken at most once, and the call ends with a found table, a
\* not-found result, or the "readin pst found when no symtab found" error.
C28_AtMostOneJump ==
  \A name \in {<<"a">>, <<"b">>, <<"h">>, <<"g">>} :
     LET r  == lookup_symtab(St, name)
         ps == lookup_partial_symtab(name)
     IN /\ r.ended
        /\ r.jumps <= 1
        /\ \/ r.val # NoSymtab /\ r.err = "" /\ Filename(r.val) = name
           \/ r.val = NoSymtab /\ r.err = "" /\ ps = 0
           \/ r.val = NoSymtab /\ r.err = "internal" /\ ps # 0 /\ r.st.readin[ps]
        /\ r.jumps = 1 =>
              /\ ps # 0
              /\ ~St.readin[ps]
              /\ PSYMTAB_TO_SYMTAB(St, ps).val = NoSymtab

\* lookup_symtab has found the table of an include file on its second pass.
C28_Witness ==
  /\ res.op = "lookup_symtab"
  /\ res.args.jumps = 1
  /\ res.err = ""
  /\ res.val # NoSymtab
  /\ Filename(res.val) = <<"h">>

\* lookup_symtab has ended in the error on its second pass.
ErrorAfterJump ==
  /\ res.op = "lookup_symtab"
  /\ res.args.jumps = 1
  /\ res.err = "internal"

-----------------------------------------------------------------------------
(* skip_prologue_using_sal.                                                *)

\* A variant of the loop that goes on whatever the line of the next entry.
RECURSIVE PrologueLoop_anyline(_, _, _, _, _)
PrologueLoop_anyline(s, prologue_sal, end_pc, rounds, lines) ==
  IF ~(prologue_sal.end_ < end_pc)
  THEN [st |-> s, val |-> prologue_sal.end_, rounds |-> rounds, lines |-> lines,
        ended |-> TRUE]
  ELSE IF rounds >= MaxRounds
  THEN [st |-> s, val |-> prologue_sal.end_, rounds |-> rounds, lines |-> lines,
        ended |-> FALSE]
  ELSE With(find_pc_line(s, prologue_sal.end_, FALSE),
         LAMBDA r :
           IF r.val.line = 0
           THEN [st |-> r.st, val |-> prologue_sal.end_, rounds |-> rounds + 1,
                 lines |-> lines, ended |-> TRUE]
           ELSE PrologueLoop_anyline(r.st, r.val, end_pc, rounds + 1,
                                     Append(lines, r.val.line)))

\* The while loop of skip_prologue_using_sal: [st, val, rounds, lines,
\* ended] with rounds the number of times the body was entered and lines
\* the lines of the entries prologue_sal went through; a loop that has
\* entered its body MaxRounds times is cut off with ended unset.
RECURSIVE PrologueLoop(_, _, _, _, _)
PrologueLoop(s, prologue_sal, end_pc, rounds, lines) ==
  IF ~(prologue_sal.end_ < end_pc)
  THEN [st |-> s, val |-> prologue_sal.end_, rounds |-> rounds, lines |-> lines,
        ended |-> TRUE]
  ELSE IF rounds >= MaxRounds
  THEN [st |-> s, val |-> prologue_sal.end_, rounds |-> rounds, lines |-> lines,
        ended |-> FALSE]
  ELSE With(find_pc_line(s, prologue_sal.end_, FALSE),
         LAMBDA r :
           IF r.val.line = 0 \/ r.val.line >= prologue_sal.line
           THEN [st |-> r.st, val |-> prologue_sal.end_, rounds |-> rounds + 1,
                 lines |-> lines, ended |-> TRUE]
           ELSE PrologueLoop(r.st, r.val, end_pc, rounds + 1,
                             Append(lines, r.val.line)))

\* skip_prologue_using_sal (func_addr), with fn what
\* find_pc_partial_function left in start_pc and end_pc and the
\* architecture's function start offset 0.
skip_prologue_using_sal(s, func_addr, fn) ==
  With(find_pc_line(s, fn.func_addr, FALSE),
    LAMBDA r :
      IF r.val.line = 0
      THEN [st |-> r.st, val |-> r.val.end_, rounds |-> 0, lines |-> <<0>>,
            ended |-> TRUE]
      ELSE IF r.val.end_ >= fn.func_end
      THEN [st |-> r.st, val |-> 0, rounds |-> 0, lines |-> <<r.val.line>>,
            ended |-> TRUE]
      ELSE PrologueLoop(r.st, r.val, fn.func_end, 0, <<r.val.line>>))

\* What start_pc and end_pc can hold after find_pc_partial_function: the
\* extent of a function, or, when it finds none and leaves them unassigned,
\* any two values.
AnyExtent ==
  [found : BOOLEAN, func_addr : 0..MaxPc, func_end : 0..(MaxPc + 1)]

\* The ones tried for func_addr: the extents of a function around it, and
\* for unassigned values any start with an end below or above every address.
Extents(func_addr) ==
  {fn \in PartialFunctions(func_addr) : fn.found}
    \cup {[found |-> FALSE, func_addr |-> lo, func_end |-> hi] :
            lo \in 0..MaxPc, hi \in {0, MaxPc + 1}}

SkipPrologueUsingSal ==
  \E func_addr \in 0..MaxPc :
     \E fn \in Extents(func_addr) :
        LET r == skip_prologue_using_sal(St, func_addr, fn)
        IN Commit(r.st, "skip_prologue_using_sal",
                  [func_addr |-> func_addr, fn |-> fn, rounds |-> r.rounds,
                   lines |-> r.lines], r.val, "")

\* The line tables of a.c tried: lines falling by one from the entry on;
\* lines rising; one line at two addresses; no line at the entry; entries
\* out of address order.
SkipTables ==
  {<<Entry(3, 0), Entry(2, 1), Entry(1, 2), Entry(0, 3)>>,
   <<Entry(1, 0), Entry(2, 1), Entry(0, 3)>>,
   <<Entry(2, 0), Entry(2, 2), Entry(0, 3)>>,
   <<Entry(2, 1), Entry(1, 2)>>,
   <<Entry(2, 1), Entry(1, 0), Entry(3, 2)>>}

InitSkip == \E lt \in SkipTables : Fresh(SalFiles(lt, <<"b">>, FALSE))

NextSkip ==
  \/ Convert
  \/ SkipPrologueUsingSal

SpecSkip == InitSkip /\ [][NextSkip]_vars

\* C29: skip_prologue_using_sal (func_addr) terminates for every line
\* table: each round of its loop either breaks or replaces the current line
\* entry by one with a strictly smaller nonzero line number, so the number
\* of rounds is bounded by the line number found at the function's start.
C29_LinesFallUntilBreak ==
  \A fn \in AnyExtent :
     LET r == skip_prologue_using_sal(St, fn.func_addr, fn)
     IN /\ r.ended
        /\ \A i \in 1..(Len(r.lines) - 1) :
              0 < r.lines[i + 1] /\ r.lines[i + 1] < r.lines[i]
        /\ r.rounds \in {Len(r.lines) - 1, Len(r.lines)}
        /\ r.rounds <= r.lines[1]

\* The loop has replaced the line entry twice, by lines 2 and 1 after line
\* 3 at the function's start.
C29_Witness ==
  /\ res.op = "skip_prologue_using_sal"
  /\ res.args.lines = <<3, 2, 1>>
  /\ res.args.rounds \in {2, 3}

-----------------------------------------------------------------------------
(* Completion of source file names.                                        *)

\* lbasename (name): what follows the last directory separator.
RECURSIVE lbasename(_)
lbasename(name) ==
  IF \E i \in 1..Len(name) : name[i] = "/"
  THEN lbasename(Tail(name))
  ELSE name

\* not_interesting_fname (fname); -g- stands for "_globals_".
not_interesting_fname(fname) == fname = <<"-", "g", "-">>

\* filename_seen (file, add, first) on the table tab: [tab, first, val].
\* *first is read and never assigned.
filename_seen(tab, file, add, first) ==
  With(IF first THEN <<>> ELSE tab,
    LAMBDA t :
      IF \E i \in 1..Len(t) : t[i] = file
      THEN [tab |-> t, first |-> first, val |-> TRUE]
      ELSE [tab |-> IF add THEN Append(t, file) ELSE t, first |-> first, val |-> FALSE])

\* The body of both loops of make_source_files_completion_list for one file
\* name; a is [tab, first, list], and word is text, so that a match is
\* listed in full.
CompleteFilename(a, filename, text) ==
  IF not_interesting_fname(filename) THEN a
  ELSE With(filename_seen(a.tab, filename, TRUE, a.first),
    LAMBDA r1 :
      IF ~r1.val /\ HasPrefix(filename, text)
      THEN [tab |-> r1.tab, first |-> r1.first, list |-> Append(a.list, filename)]
      ELSE IF lbasename(filename) = filename
      THEN [tab |-> r1.tab, first |-> r1.first, list |-> a.list]
      ELSE With(filename_seen(r1.tab, lbasename(filename), TRUE, r1.first),
             LAMBDA r2 :
               [tab |-> r2.tab, first |-> r2.first,
                list |-> IF ~r2.val /\ HasPrefix(lbasename(filename), text)
                         THEN Append(a.list, lbasename(filename))
                         ELSE a.list]))

RECURSIVE CompleteSymtabs(_, _, _)
CompleteSymtabs(a, list, text) ==
  IF list = <<>> THEN a
  ELSE CompleteSymtabs(CompleteFilename(a, Filename(Head(list)), text), Tail(list), text)

RECURSIVE CompletePsymtabs(_, _, _, _)
CompletePsymtabs(a, s, p, text) ==
  IF p > Len(cat.pst) THEN a
  ELSE CompletePsymtabs(IF s.readin[p] THEN a
                        ELSE CompleteFilename(a, cat.pst[p].filename, text),
                        s, p + 1, text)

\* make_source_files_completion_list (text, word) with word = text:
\* [list, tab], the names returned and the table of files seen at the end.
make_source_files_completion_list(s, text) ==
  IF s.symtabs = <<>> /\ Len(cat.pst) = 0 THEN [list |-> <<>>, tab |-> <<>>]
  ELSE With(CompletePsymtabs(
              CompleteSymtabs([tab |-> <<>>, first |-> TRUE, list |-> <<>>],
                              s.symtabs, text),
              s, 1, text),
         LAMBDA a : [list |-> a.list, tab |-> a.tab])

FileTexts == {<<>>, <<"a">>, <<"h">>, <<"e">>}

MakeSourceFilesCompletionList ==
  \E text \in FileTexts :
     Commit(St, "make_source_files_completion_list", [text |-> text],
            make_source_files_completion_list(St, text), "")

\* The two units of LineFiles, each with a symtab for the header h; the
\* second unit is a.c again, b.c, or a file a.c in directory e.
InitFiles ==
  \E lh \in HeaderTables, second \in {<<"a">>, <<"b">>, <<"e", "/", "a">>} :
     Fresh(LineFiles(<<Entry(1, 0), Entry(2, 1), Entry(0, 2)>>, lh, second, FALSE))

NextFiles ==
  \/ Convert
  \/ MakeSourceFilesCompletionList

SpecFiles == InitFiles /\ [][NextFiles]_vars

\* The file names the two loops pass to filename_seen, in order.
RECURSIVE NamesPassed(_, _)
NamesPassed(names, text) ==
  IF names = <<>> THEN <<>>
  ELSE (IF HasPrefix(Head(names), text) \/ lbasename(Head(names)) = Head(names)
        THEN <<Head(names)>>
        ELSE <<Head(names), lbasename(Head(names))>>)
       \o NamesPassed(Tail(names), text)

\* The file names of the symtabs, then of the partial symtabs not read in.
CatalogFilenames ==
  [i \in 1..Len(symtabs) |-> Filename(symtabs[i])]
    \o SelectSeq([p \in 1..Len(cat.pst) |->
                    IF readin[p] THEN <<>> ELSE cat.pst[p].filename],
                 LAMBDA n : n # <<>>)

\* C30: make_source_files_completion_list returns each file name at most
\* once, even when several symtabs or partial symtabs carry the same
\* filename or the same base name; the table of files seen that
\* filename_seen builds keeps every name added earlier in the same call.
C30_EachFileOnce ==
  \A text \in FileTexts :
     LET r == make_source_files_completion_list(St, text)
         passed == NamesPassed(CatalogFilenames, text)
     IN /\ \A i, j \in 1..Len(r.list) : i # j => r.list[i] # r.list[j]
        /\ \A k \in 1..Len(passed) : \E i \in 1..Len(r.tab) : r.tab[i] = passed[k]

\* What the code does: *first stays set, so every call of filename_seen
\* forgets the table; each name passed is reported as not seen, the list
\* holds every name that begins with text, repeated as often as it is
\* carried, and the table ends with the last name passed alone.
TableForgottenEachCall ==
  \A text \in FileTexts :
     LET r == make_source_files_completion_list(St, text)
         passed == NamesPassed(CatalogFilenames, text)
     IN /\ r.list = SelectSeq(passed, LAMBDA n : HasPrefix(n, text))
        /\ r.tab = IF passed = <<>> THEN <<>> ELSE <<passed[Len(passed)]>>

\* The completion of the empty text has listed the header h twice.
ListedTwice ==
  /\ res.op = "make_source_files_completion_list"
  /\ res.args.text = <<>>
  /\ Cardinality({i \in 1..Len(res.val.list) : res.val.list[i] = <<"h">>}) = 2
=============================================================================
